---- MODULE Spec2Model ----
(***************************************************************************)
(* Model of clean-sd-card: date grouping, consecutive-day clustering and   *)
(* the concurrent transfer engine of copyFiles (src/fileops.go), the       *)
(* sidecar cleanup of deleteZombieEditFiles and the phases of cleanSDCard. *)
(***************************************************************************)
EXTENDS Integers, Sequences, FiniteSets, TLC

VARIABLES
    pc,                         \* position of the caller / of copyFiles' own goroutine
    dateGroups,                 \* []dateGroup handed to detectConsecutiveDays
    thresholdOneDay,            \* folderCreationThresholdOneDay
    thresholdConsecutiveDays,   \* folderCreationThresholdConsecutiveDays
    result,                     \* []groupWithDestDir returned by detectConsecutiveDays
    filesWithDates,             \* []fileWithDate handed to groupFilesByDate
    groups,                     \* []dateGroup returned by groupFilesByDate
    flagDryRun,                 \* copyFiles' flagDryRun
    flagOverwrite,              \* copyFiles' flagOverwrite
    finalGroups,                \* copyFiles' finalGroups
    gi,                         \* index of the group the transfer loop is at
    fi,                         \* index of the next file of that group to dispatch
    task,                       \* the copy goroutines, by file name
    count,                      \* atomic.Int32 count
    errsChan,                   \* buffered channel of fileCopyError (file names)
    wg,                         \* sync.WaitGroup counter
    dstFS,                      \* destination tree: existing file paths and their content
    dstBefore,                  \* the file paths that existed when copyFiles was called
    dirs,                       \* subdirectories created by MkdirAll
    retCount,                   \* the count copyFiles returned
    retErr,                     \* the error copyFiles returned
    srcEntries,                 \* os.ReadDir of the source directory
    ext,                        \* copyFiles' ext
    extract,                    \* the EXIF goroutines of copyFiles, by entry index
    calls,                      \* the counts returned by the calls completed so far
    caseSensitive,              \* whether the file system tells names apart by case
    zFS,                        \* the files of the directory deleteZombieEditFiles works on
    zBefore,                    \* the files it held when deleteZombieEditFiles was called
    ztask,                      \* the goroutines of deleteZombieEditFiles, by entry
    zcount,                     \* its atomic.Int32 count
    zerrs,                      \* its buffered channel errsChan
    zret,                       \* what deleteZombieEditFiles returned
    zprobe,                     \* the entries for which an os.Stat failed otherwise than with ErrNotExist
    isRecursive,                \* deleteZombieEditFiles' isRecursive
    tFS,                        \* the entries (files and directories) of the tree under dir
    tBefore,                    \* the entries it held when deleteZombieEditFiles was called
    ttask,                      \* the goroutines of all calls in the tree, by entry
    tcall,                      \* the calls of deleteZombieEditFiles, by directory
    tfail,                      \* the entries and directories an operation failed on
    d1,                         \* isConsecutiveDay's date1
    d2,                         \* isConsecutiveDay's date2
    consecutive,                \* what isConsecutiveDay returned
    srcFS,                      \* indices of the entries still in the source directory
    sidecars,                   \* the edit files of the destination tree
    sidecarsBefore,             \* the edit files it held when cleanSDCard was called
    dirsBefore,                 \* the directories that existed when cleanSDCard was called
    flagDeleteZombieEditFiles,  \* cleanSDCard's flagDeleteZombieEditFiles
    ei,                         \* index of the extension the copy loop is at
    ri,                         \* index of the entry removeFiles is at
    totalCopied,                \* cleanSDCard's totalCopied
    removedCount,               \* cleanSDCard's removedCount
    passes,                     \* what the calls of copyFiles returned so far
    removeRet,                  \* the error removeFiles returned
    cleanRet,                   \* what cleanSDCard returned
    runNo                       \* the runs of cleanSDCard before the current one

detectVars == <<dateGroups, thresholdOneDay, thresholdConsecutiveDays, result>>

groupVars == <<filesWithDates, groups>>

copyVars == <<flagDryRun, flagOverwrite, finalGroups, gi, fi, task, count, errsChan,
              wg, dstFS, dstBefore, dirs, retCount, retErr>>

extractVars == <<srcEntries, ext, extract, calls>>

\* The state of what surrounds the transfer phase.
zombieVars == <<caseSensitive, zFS, zBefore, ztask, zcount, zerrs, zret, zprobe>>

cleanVars == <<srcFS, sidecars, sidecarsBefore, dirsBefore, flagDeleteZombieEditFiles,
               ei, ri, totalCopied, removedCount, passes, removeRet, cleanRet, runNo>>

\* deleteZombieEditFiles on a directory tree.
treeVars == <<isRecursive, tFS, tBefore, ttask, tcall, tfail>>

\* A call of isConsecutiveDay.
dayVars == <<d1, d2, consecutive>>

auxVars == <<treeVars, dayVars>>

outerVars == <<extractVars, zombieVars, cleanVars, auxVars>>

vars == <<pc, detectVars, groupVars, copyVars, outerVars>>

(***************************************************************************)
(* Bounds of the model.                                                    *)
(***************************************************************************)
NumDays == 5          \* calendar days the inputs are drawn from
MaxBuckets == 4       \* day-buckets in one input of detectConsecutiveDays
MaxCount == 2         \* files in one day-bucket
MaxThreshold == 3     \* thresholds are drawn from 1..MaxThreshold

(***************************************************************************)
(* time.Time, reduced to the calendar day and the hour of the day.  All    *)
(* timestamps are in one location (EXIF timestamps carry no zone).         *)
(***************************************************************************)
IsLeap(y) == (y % 4 = 0 /\ y % 100 # 0) \/ y % 400 = 0

DaysIn(y, m) ==
    IF m = 2 THEN (IF IsLeap(y) THEN 29 ELSE 28)
    ELSE IF m \in {4, 6, 9, 11} THEN 30 ELSE 31

\* time.Time.AddDate(0, 0, 1): the day is incremented and the date normalised.
AddDate1(t) ==
    IF t.d + 1 <= DaysIn(t.y, t.m) THEN [t EXCEPT !.d = @ + 1]
    ELSE IF t.m < 12 THEN [t EXCEPT !.m = @ + 1, !.d = 1]
    ELSE [t EXCEPT !.y = @ + 1, !.m = 1, !.d = 1]

\* time.Time.After: comparison of instants.
After(t, u) ==
    \/ t.y > u.y
    \/ t.y = u.y /\ t.m > u.m
    \/ t.y = u.y /\ t.m = u.m /\ t.d > u.d
    \/ t.y = u.y /\ t.m = u.m /\ t.d = u.d /\ t.h > u.h

Pad2(n) == IF n < 10 THEN "0" \o ToString(n) ELSE ToString(n)

Pad4(n) ==
    IF n < 10 THEN "000" \o ToString(n)
    ELSE IF n < 100 THEN "00" \o ToString(n)
    ELSE IF n < 1000 THEN "0" \o ToString(n)
    ELSE ToString(n)

\* t.Format("20060102")
FormatCompact(t) == Pad4(t.y) \o Pad2(t.m) \o Pad2(t.d)

\* Variant of isConsecutiveDay that accepts any later calendar day.
isConsecutiveDayAnyLater(date1, date2) ==
    \/ date2.y > date1.y
    \/ date2.y = date1.y /\ date2.m > date1.m
    \/ date2.y = date1.y /\ date2.m = date1.m /\ date2.d > date1.d

\* Variant of isConsecutiveDay that adds one to the day of the month without
\* normalising the date.
isConsecutiveDayNoRollover(date1, date2) ==
    date1.y = date2.y /\ date1.m = date2.m /\ date1.d + 1 = date2.d

\* isConsecutiveDay checks if date2 is the day after date1
isConsecutiveDay(date1, date2) ==
    LET nextDay == AddDate1(date1)
    IN  nextDay.y = date2.y /\ nextDay.m = date2.m /\ nextDay.d = date2.d

(***************************************************************************)
(* detectConsecutiveDays                                                   *)
(***************************************************************************)
RECURSIVE Concat(_)
Concat(ss) == IF ss = <<>> THEN <<>> ELSE Head(ss) \o Concat(Tail(ss))

\* Variant of lookAhead whose threshold comparison is exclusive.
RECURSIVE lookAheadExclusive(_, _, _, _)
lookAheadExclusive(dgs, thrConsecutive, consecutiveGroups, j) ==
    IF j <= Len(dgs)
       /\ isConsecutiveDay(consecutiveGroups[Len(consecutiveGroups)].date, dgs[j].date)
       /\ Len(dgs[j].files) > thrConsecutive
    THEN lookAheadExclusive(dgs, thrConsecutive, Append(consecutiveGroups, dgs[j]), j + 1)
    ELSE [consecutiveGroups |-> consecutiveGroups, j |-> j]

\* The look-ahead loop: extends consecutiveGroups from index j while the next
\* group is the day after the last one and has enough files.
RECURSIVE lookAhead(_, _, _, _)
lookAhead(dgs, thrConsecutive, consecutiveGroups, j) ==
    IF j <= Len(dgs)
       /\ isConsecutiveDay(consecutiveGroups[Len(consecutiveGroups)].date, dgs[j].date)
       /\ Len(dgs[j].files) >= thrConsecutive
    THEN lookAhead(dgs, thrConsecutive, Append(consecutiveGroups, dgs[j]), j + 1)
    ELSE [consecutiveGroups |-> consecutiveGroups, j |-> j]

\* Whether the scan takes the consecutive-day branch for the group at i.
qualifiesForRun(fileCount, thrConsecutive) == fileCount >= thrConsecutive

\* Variants of isRun with the minimum run length off by one.
isRunAtLeastThree(consecutiveGroups) == Len(consecutiveGroups) >= 3

isRunAtLeastOne(consecutiveGroups) == Len(consecutiveGroups) >= 1

\* Whether a run found by the look-ahead is emitted as one range folder.
isRun(consecutiveGroups) == Len(consecutiveGroups) >= 2

\* Variant of isHighVolumeDay whose comparison is exclusive.
isHighVolumeDayExclusive(fileCount, thrOneDay) == fileCount > thrOneDay

\* Whether a day that is not part of a run gets its own folder.
isHighVolumeDay(fileCount, thrOneDay) == fileCount >= thrOneDay

\* The range folder name of a run.
rangeDestDir(consecutiveGroups) ==
    FormatCompact(consecutiveGroups[1].date) \o "-"
        \o FormatCompact(consecutiveGroups[Len(consecutiveGroups)].date)

\* Variant of allFilesOf that leaves out the last group of the run.
allFilesOfDropLast(consecutiveGroups) ==
    Concat([k \in 1..(Len(consecutiveGroups) - 1) |-> consecutiveGroups[k].files])

\* The files of a run: the files of its groups, in order.
allFilesOf(consecutiveGroups) ==
    Concat([k \in 1..Len(consecutiveGroups) |-> consecutiveGroups[k].files])

RECURSIVE detectLoop(_, _, _, _, _)
detectLoop(dgs, thrOneDay, thrConsecutive, i, res) ==
    IF i > Len(dgs) THEN res
    ELSE
        LET currentGroup == dgs[i]
            fileCount == Len(currentGroup.files)
            la == lookAhead(dgs, thrConsecutive, <<currentGroup>>, i + 1)
        IN  IF qualifiesForRun(fileCount, thrConsecutive) /\ isRun(la.consecutiveGroups)
            THEN detectLoop(dgs, thrOneDay, thrConsecutive, la.j,
                     Append(res, [files |-> allFilesOf(la.consecutiveGroups),
                                  destDir |-> rangeDestDir(la.consecutiveGroups)]))
            ELSE IF isHighVolumeDay(fileCount, thrOneDay)
            THEN detectLoop(dgs, thrOneDay, thrConsecutive, i + 1,
                     Append(res, [files |-> currentGroup.files,
                                  destDir |-> FormatCompact(currentGroup.date)]))
            ELSE detectLoop(dgs, thrOneDay, thrConsecutive, i + 1,
                     Append(res, [files |-> currentGroup.files, destDir |-> "."]))

detectConsecutiveDays(dgs, thrOneDay, thrConsecutive) ==
    detectLoop(dgs, thrOneDay, thrConsecutive, 1, <<>>)

\* The error value nil.
NilError == [kind |-> "nil"]

\* No call of copyFiles is in progress.
CopyNotStarted ==
    /\ flagDryRun = FALSE
    /\ flagOverwrite = FALSE
    /\ finalGroups = <<>>
    /\ gi = 1
    /\ fi = 1
    /\ task = <<>>
    /\ count = 0
    /\ errsChan = <<>>
    /\ wg = 0
    /\ dstFS = <<>>
    /\ dstBefore = {}
    /\ dirs = {}
    /\ retCount = 0
    /\ retErr = NilError

\* No source directory has been read.
ExtractNotStarted ==
    /\ srcEntries = <<>>
    /\ ext = ""
    /\ extract = <<>>
    /\ calls = <<>>

\* The value of zret while deleteZombieEditFiles has not returned.
NoReturn == [count |-> 0, err |-> [kind |-> "none"]]

\* No call of deleteZombieEditFiles has been made.
ZombieNotStarted ==
    /\ caseSensitive = TRUE
    /\ zFS = {}
    /\ zBefore = {}
    /\ ztask = <<>>
    /\ zcount = 0
    /\ zerrs = <<>>
    /\ zret = NoReturn
    /\ zprobe = {}

\* An error value that has not been produced yet.
NoError == [kind |-> "none"]

\* No call of cleanSDCard has been made.
CleanNotStarted ==
    /\ srcFS = {}
    /\ sidecars = {}
    /\ sidecarsBefore = {}
    /\ dirsBefore = {}
    /\ flagDeleteZombieEditFiles = FALSE
    /\ ei = 1
    /\ ri = 1
    /\ totalCopied = 0
    /\ removedCount = 0
    /\ passes = <<>>
    /\ removeRet = NoError
    /\ cleanRet = NoError
    /\ runNo = 0

\* No call of deleteZombieEditFiles on a tree has been made.
TreeNotStarted ==
    /\ isRecursive = FALSE
    /\ tFS = {}
    /\ tBefore = {}
    /\ ttask = <<>>
    /\ tcall = <<>>
    /\ tfail = {}

\* No call of isConsecutiveDay has been made.
DayNotStarted ==
    /\ d1 = <<>>
    /\ d2 = <<>>
    /\ consecutive = FALSE

AuxNotStarted == TreeNotStarted /\ DayNotStarted

OuterNotStarted == ExtractNotStarted /\ ZombieNotStarted /\ CleanNotStarted /\ AuxNotStarted

(***************************************************************************)
(* Inputs of the clustering: date-ascending day-buckets over a window of   *)
(* NumDays calendar days that spans a month and a year boundary.           *)
(***************************************************************************)
\* First day of the window.
WindowStart == [y |-> 2025, m |-> 12, d |-> 29, h |-> 0]

RECURSIVE DayAt(_)
DayAt(k) ==
    IF k = 0 THEN WindowStart
    ELSE LET p == DayAt(k - 1)
         IN  IF p.d < DaysIn(p.y, p.m) THEN [p EXCEPT !.d = p.d + 1]
             ELSE IF p.m < 12 THEN [p EXCEPT !.m = p.m + 1, !.d = 1]
             ELSE [p EXCEPT !.y = p.y + 1, !.m = 1, !.d = 1]

Calendar == [k \in 0..(NumDays - 1) |-> DayAt(k)]

\* Days since the start of the window, for dates of the window.
Ordinal(t) ==
    CHOOSE k \in 0..(NumDays - 1) :
        Calendar[k].y = t.y /\ Calendar[k].m = t.m /\ Calendar[k].d = t.d

\* makeFileList of the tests: distinct names with a common prefix.
makeFileList(howMany, prefix) ==
    [n \in 1..howMany |-> prefix \o "_file" \o ToString(n) \o ".arw"]

RECURSIVE SortedSeqOf(_)
SortedSeqOf(S) ==
    IF S = {} THEN <<>>
    ELSE LET lo == CHOOSE x \in S : \A z \in S : x <= z
         IN  <<lo>> \o SortedSeqOf(S \ {lo})

Hours == {0, 23}

\* The bucket lists: ascending days, 1..MaxCount files per bucket, the hour
\* of the bucket's timestamp alternating from a chosen first hour.
BucketLists ==
    { [k \in 1..Cardinality(S) |->
          [date  |-> [Calendar[SortedSeqOf(S)[k]] EXCEPT
                          !.h = IF k % 2 = 1 THEN h0 ELSE 23 - h0],
           files |-> makeFileList(cnt[SortedSeqOf(S)[k]],
                                  "day" \o ToString(SortedSeqOf(S)[k]))]] :
        S \in { T \in SUBSET (0..(NumDays - 1)) : Cardinality(T) <= MaxBuckets },
        cnt \in [0..(NumDays - 1) -> 1..MaxCount],
        h0 \in Hours }

InitDetect ==
    /\ pc = "detect"
    /\ dateGroups \in BucketLists
    /\ thresholdOneDay \in 1..MaxThreshold
    /\ thresholdConsecutiveDays \in 1..MaxThreshold
    /\ result = <<>>
    /\ filesWithDates = <<>>
    /\ groups = <<>>
    /\ CopyNotStarted
    /\ OuterNotStarted

Detect ==
    /\ pc = "detect"
    /\ result' = detectConsecutiveDays(dateGroups, thresholdOneDay, thresholdConsecutiveDays)
    /\ pc' = "detected"
    /\ UNCHANGED <<dateGroups, thresholdOneDay, thresholdConsecutiveDays,
                   filesWithDates, groups, copyVars, outerVars>>

NextDetect == Detect

SpecDetect == InitDetect /\ [][NextDetect]_vars

(***************************************************************************)
(* groupFilesByDate                                                        *)
(***************************************************************************)
\* Variant of FormatDateKey that keeps only the year and the month.
FormatDateKeyMonthOnly(t) == Pad4(t.y) \o Pad2(t.m)

\* t.Format(dateFormat) with dateFormat = "200601-02"
FormatDateKey(t) == Pad4(t.y) \o Pad2(t.m) \o "-" \o Pad2(t.d)

\* The first loop: dateMap after the records fwds[n..] were added to dm.
\* dm is the map as a function from its keys to the groups.
RECURSIVE buildDateMap(_, _, _)
buildDateMap(fwds, n, dm) ==
    IF n > Len(fwds) THEN dm
    ELSE
        LET fwd == fwds[n]
            dateKey == FormatDateKey(fwd.date)
        IN  IF dateKey \in DOMAIN dm
            THEN buildDateMap(fwds, n + 1,
                     [dm EXCEPT ![dateKey].files = Append(@, fwd.name)])
            ELSE buildDateMap(fwds, n + 1,
                     [k \in DOMAIN dm \cup {dateKey} |->
                         IF k = dateKey
                         THEN [date |-> fwd.date, files |-> <<fwd.name>>]
                         ELSE dm[k]])

EmptyMap == [k \in {} |-> <<>>]

\* The orders in which a range over the map can visit its keys.
IterationOrders(dm) ==
    {o \in [1..Cardinality(DOMAIN dm) -> DOMAIN dm] :
        \A a \in DOMAIN o : \A b \in DOMAIN o : a # b => o[a] # o[b]}

\* Variant of SwapAt that assigns groups[j] to groups[i] only.
SwapAtOneWay(gs, i, j) == [gs EXCEPT ![i] = gs[j]]

\* Line 291: groups[i], groups[j] = groups[j], groups[i].
SwapAt(gs, i, j) == [gs EXCEPT ![i] = gs[j], ![j] = gs[i]]

\* The inner loop of the sort, from index j on, for a fixed i.
RECURSIVE sortInner(_, _, _)
sortInner(gs, i, j) ==
    IF j > Len(gs) THEN gs
    ELSE sortInner(IF After(gs[i].date, gs[j].date) THEN SwapAt(gs, i, j) ELSE gs,
                   i, j + 1)

\* The outer loop of the sort, from index i on.
RECURSIVE sortOuter(_, _)
sortOuter(gs, i) ==
    IF i > Len(gs) THEN gs
    ELSE sortOuter(sortInner(gs, i, 1), i + 1)

\* groupFilesByDate, for one order of iteration over dateMap.
groupFilesByDate(fwds, order) ==
    LET dateMap == buildDateMap(fwds, 1, EmptyMap)
        unsorted == [n \in 1..Len(order) |-> dateMap[order[n]]]
    IN  sortOuter(unsorted, 1)

MaxFiles == 3         \* records in one input of groupFilesByDate

\* Directory entries: distinct names.
EntryName(n) == "file" \o ToString(n) \o ".arw"

Timestamps == {[Calendar[k] EXCEPT !.h = h] : k \in 0..(NumDays - 1), h \in Hours}

\* The lists of len records with the names file1 .. file<len>.
RECURSIVE recordListsOfLen(_)
recordListsOfLen(len) ==
    IF len = 0 THEN {<<>>}
    ELSE {Append(fwds, [name |-> EntryName(len), date |-> t]) :
             fwds \in recordListsOfLen(len - 1), t \in Timestamps}

RecordLists == UNION {recordListsOfLen(len) : len \in 0..MaxFiles}

InitGroup ==
    /\ pc = "group"
    /\ filesWithDates \in RecordLists
    /\ groups = <<>>
    /\ dateGroups = <<>>
    /\ thresholdOneDay = 0
    /\ thresholdConsecutiveDays = 0
    /\ result = <<>>
    /\ CopyNotStarted
    /\ OuterNotStarted

Group ==
    /\ pc = "group"
    /\ \E order \in IterationOrders(buildDateMap(filesWithDates, 1, EmptyMap)) :
           groups' = groupFilesByDate(filesWithDates, order)
    /\ pc' = "grouped"
    /\ UNCHANGED <<filesWithDates, dateGroups, thresholdOneDay,
                   thresholdConsecutiveDays, result, copyVars, outerVars>>

NextGroup == Group

SpecGroup == InitGroup /\ [][NextGroup]_vars

(***************************************************************************)
(* copyFiles: planning and the transfer phase.  The goroutine of copyFiles *)
(* walks finalGroups, creates each subdirectory and starts one goroutine   *)
(* per file; the goroutines run concurrently with it and with each other.  *)
(***************************************************************************)
MaxCopyFiles == 3     \* records in filesWithDates of one copyFiles call

dstDir == "dst"

\* filepath.Join
joinPath(a, b) == a \o "/" \o b

actualDestDirOf(group) ==
    IF group.destDir = "." THEN dstDir ELSE joinPath(dstDir, group.destDir)

CopyTimestamps == {Calendar[0], Calendar[1]}

CopyRecordLists ==
    UNION { {[n \in 1..len |-> [name |-> EntryName(n), date |-> ts[n]]] :
                ts \in [1..len -> CopyTimestamps]} : len \in 0..MaxCopyFiles }

\* <<thresholdOneDay, thresholdConsecutiveDays>> of the calls.
ThresholdPairs == {<<1, 1>>, <<2, 2>>, <<3, 1>>}

\* The clusters copyFiles computes for its records.
planOf(fwds, thrOneDay, thrConsecutive, order) ==
    detectConsecutiveDays(groupFilesByDate(fwds, order), thrOneDay, thrConsecutive)

\* The destination paths the call will address.
TargetPaths(fwds, thrOneDay, thrConsecutive) ==
    LET dm == buildDateMap(fwds, 1, EmptyMap)
        plan == planOf(fwds, thrOneDay, thrConsecutive,
                       CHOOSE o \in IterationOrders(dm) : TRUE)
    IN  UNION { {joinPath(actualDestDirOf(plan[c]), plan[c].files[n]) :
                    n \in 1..Len(plan[c].files)} : c \in 1..Len(plan) }

IdleTask == [pc |-> "idle", destDir |-> "", outcome |-> "none"]

InitCopy ==
    /\ pc = "plan"
    /\ filesWithDates \in CopyRecordLists
    /\ \E tp \in ThresholdPairs :
           thresholdOneDay = tp[1] /\ thresholdConsecutiveDays = tp[2]
    /\ flagDryRun \in BOOLEAN
    /\ flagOverwrite \in BOOLEAN
    /\ dstBefore \in {S \in SUBSET TargetPaths(filesWithDates, thresholdOneDay,
                                               thresholdConsecutiveDays) :
                         Cardinality(S) <= 1}
    /\ dstFS = [p \in dstBefore |-> "old"]
    /\ dirs = {}
    /\ task = [f \in {filesWithDates[n].name : n \in 1..Len(filesWithDates)} |-> IdleTask]
    /\ dateGroups = <<>>
    /\ finalGroups = <<>>
    /\ gi = 1
    /\ fi = 1
    /\ count = 0
    /\ errsChan = <<>>
    /\ wg = 0
    /\ retCount = 0
    /\ retErr = NilError
    /\ result = <<>>
    /\ groups = <<>>
    /\ OuterNotStarted

\* Lines 195-203: the early return for no records, else grouping and clustering.
Plan ==
    /\ pc = "plan"
    /\ IF Len(filesWithDates) = 0
       THEN /\ pc' = "returned"
            /\ retCount' = 0
            /\ retErr' = NilError
            /\ UNCHANGED <<dateGroups, finalGroups>>
       ELSE /\ \E order \in IterationOrders(buildDateMap(filesWithDates, 1, EmptyMap)) :
                   LET byDate == groupFilesByDate(filesWithDates, order)
                   IN  /\ dateGroups' = byDate
                       /\ finalGroups' = detectConsecutiveDays(byDate, thresholdOneDay,
                                                               thresholdConsecutiveDays)
            /\ pc' = "mkdir"
            /\ UNCHANGED <<retCount, retErr>>
    /\ UNCHANGED <<thresholdOneDay, thresholdConsecutiveDays, result, groupVars,
                   flagDryRun, flagOverwrite, gi, fi, task, count, errsChan, wg,
                   dstFS, dstBefore, dirs, outerVars>>

\* Variant of needsMkdir that creates the directory in a dry run too.
needsMkdirEvenDryRun(group) == group.destDir # "."

\* Whether the loop calls os.MkdirAll for the group.
needsMkdir(group) == group.destDir # "." /\ ~flagDryRun

\* Variant of EnterGroup that goes on to the go statements without calling
\* os.MkdirAll.
EnterGroupWithoutMkdir ==
    /\ pc = "mkdir"
    /\ pc' = "dispatch"
    /\ UNCHANGED <<detectVars, groupVars, flagDryRun, flagOverwrite, finalGroups, gi, fi,
                   task, count, errsChan, wg, dstFS, dstBefore, dirs, retCount, retErr,
                   outerVars>>

\* Lines 210-222: the destination directory of the group is determined and,
\* if needed, created.
EnterGroup ==
    /\ pc = "mkdir"
    /\ dirs' = IF needsMkdir(finalGroups[gi])
               THEN dirs \cup {actualDestDirOf(finalGroups[gi])}
               ELSE dirs
    /\ pc' = "dispatch"
    /\ UNCHANGED <<detectVars, groupVars, flagDryRun, flagOverwrite, finalGroups, gi, fi,
                   task, count, errsChan, wg, dstFS, dstBefore, retCount, retErr, outerVars>>

\* Lines 218-220: os.MkdirAll fails and copyFiles returns at once.  It cannot
\* fail for a directory that exists, whether created by this call or holding
\* a file already.
MkdirFail ==
    /\ pc = "mkdir"
    /\ needsMkdir(finalGroups[gi])
    /\ actualDestDirOf(finalGroups[gi]) \notin dirs
    /\ \A f \in DOMAIN task :
           joinPath(actualDestDirOf(finalGroups[gi]), f) \notin DOMAIN dstFS
    /\ pc' = "returned"
    /\ retCount' = count
    /\ retErr' = [kind |-> "mkdir", dir |-> actualDestDirOf(finalGroups[gi])]
    /\ UNCHANGED <<detectVars, groupVars, flagDryRun, flagOverwrite, finalGroups, gi, fi,
                   task, count, errsChan, wg, dstFS, dstBefore, dirs, outerVars>>

\* Lines 224-253: wg.Add(1) and the go statement for the next file of the group.
Dispatch ==
    /\ pc = "dispatch"
    /\ LET group == finalGroups[gi]
           name == group.files[fi]
       IN  /\ wg' = wg + 1
           /\ task' = [task EXCEPT ![name] = [pc |-> "start",
                                              destDir |-> actualDestDirOf(group),
                                              outcome |-> "none"]]
           /\ IF fi < Len(group.files)
              THEN /\ fi' = fi + 1
                   /\ UNCHANGED <<gi, pc>>
              ELSE /\ fi' = 1
                   /\ gi' = gi + 1
                   /\ pc' = IF gi + 1 > Len(finalGroups) THEN "wait" ELSE "mkdir"
    /\ UNCHANGED <<detectVars, groupVars, flagDryRun, flagOverwrite, finalGroups,
                   count, errsChan, dstFS, dstBefore, dirs, retCount, retErr, outerVars>>

\* errors.Join over the drained channel.
joinErrors(chan) == IF chan = <<>> THEN NilError ELSE [kind |-> "join", errs |-> chan]

\* Lines 256-264: wg.Wait() returns, the channel is closed and drained.
WaitAndReturn ==
    /\ pc = "wait"
    /\ wg = 0
    /\ retCount' = count
    /\ retErr' = joinErrors(errsChan)
    /\ errsChan' = <<>>
    /\ pc' = "returned"
    /\ UNCHANGED <<detectVars, groupVars, flagDryRun, flagOverwrite, finalGroups, gi, fi,
                   task, count, wg, dstFS, dstBefore, dirs, outerVars>>

dstPathOf(f) == joinPath(task[f].destDir, f)

\* Variant of shouldSkip that also gives up once a sibling has reported an error.
shouldSkipOrCancelled(f) ==
    \/ ~flagOverwrite /\ dstPathOf(f) \in DOMAIN dstFS
    \/ errsChan # <<>>

\* Variant of shouldSkip that ignores the overwrite flag.
shouldSkipWheneverPresent(f) == dstPathOf(f) \in DOMAIN dstFS

\* Lines 232-237: overwrite is off and os.Stat of the destination succeeds.
shouldSkip(f) == ~flagOverwrite /\ dstPathOf(f) \in DOMAIN dstFS

\* The goroutine ends: its outcome, and the deferred wg.Done().
finish(f, outcome) ==
    /\ task' = [task EXCEPT ![f].pc = "done", ![f].outcome = outcome]
    /\ wg' = wg - 1

\* Lines 232-237: the destination exists, the file is skipped.
TaskSkip(f) ==
    /\ task[f].pc = "start"
    /\ shouldSkip(f)
    /\ finish(f, "skipped")
    /\ UNCHANGED <<pc, detectVars, groupVars, flagDryRun, flagOverwrite, finalGroups,
                   gi, fi, count, errsChan, dstFS, dstBefore, dirs, retCount, retErr, outerVars>>

\* Lines 239-243: dry run, the file is counted without being copied.
TaskDryRun(f) ==
    /\ task[f].pc = "start"
    /\ ~shouldSkip(f)
    /\ flagDryRun
    /\ count' = count + 1
    /\ finish(f, "counted")
    /\ UNCHANGED <<pc, detectVars, groupVars, flagDryRun, flagOverwrite, finalGroups,
                   gi, fi, errsChan, dstFS, dstBefore, dirs, retCount, retErr, outerVars>>

\* copyFile, lines 387-397: the source is opened and the destination is
\* created or truncated.
TaskCreate(f) ==
    /\ task[f].pc = "start"
    /\ ~shouldSkip(f)
    /\ ~flagDryRun
    /\ dstFS' = [p \in DOMAIN dstFS \cup {dstPathOf(f)} |->
                    IF p = dstPathOf(f) THEN "partial" ELSE dstFS[p]]
    /\ task' = [task EXCEPT ![f].pc = "copying"]
    /\ UNCHANGED <<pc, detectVars, groupVars, flagDryRun, flagOverwrite, finalGroups,
                   gi, fi, count, errsChan, wg, dstBefore, dirs, retCount, retErr, outerVars>>

\* Line 207: the capacity of errsChan.
errsChanCapacity == Len(filesWithDates)

\* Line 245: copyFile fails (os.Open or os.Create before anything is written,
\* or io.Copy part-way); the goroutine goes on to report the error.
TaskCopyFail(f) ==
    /\ \/ task[f].pc = "start" /\ ~shouldSkip(f) /\ ~flagDryRun
       \/ task[f].pc = "copying"
    /\ task' = [task EXCEPT ![f].pc = "sending"]
    /\ UNCHANGED <<pc, detectVars, groupVars, flagDryRun, flagOverwrite, finalGroups,
                   gi, fi, count, errsChan, wg, dstFS, dstBefore, dirs, retCount, retErr, outerVars>>

\* Lines 246-247: the send on errsChan, which blocks while the buffer is
\* full, and the return of the goroutine.
TaskSendError(f) ==
    /\ task[f].pc = "sending"
    /\ Len(errsChan) < errsChanCapacity
    /\ errsChan' = Append(errsChan, f)
    /\ finish(f, "failed")
    /\ UNCHANGED <<pc, detectVars, groupVars, flagDryRun, flagOverwrite, finalGroups,
                   gi, fi, count, dstFS, dstBefore, dirs, retCount, retErr, outerVars>>

\* Lines 245-251: io.Copy completes and the file is counted.
TaskCopyDone(f) ==
    /\ task[f].pc = "copying"
    /\ dstFS' = [dstFS EXCEPT ![dstPathOf(f)] = "copied"]
    /\ count' = count + 1
    /\ finish(f, "counted")
    /\ UNCHANGED <<pc, detectVars, groupVars, flagDryRun, flagOverwrite, finalGroups,
                   gi, fi, errsChan, dstBefore, dirs, retCount, retErr, outerVars>>

NextCopy ==
    \/ Plan
    \/ EnterGroup
    \/ MkdirFail
    \/ Dispatch
    \/ WaitAndReturn
    \/ \E f \in DOMAIN task : TaskSkip(f)
    \/ \E f \in DOMAIN task : TaskDryRun(f)
    \/ \E f \in DOMAIN task : TaskCreate(f)
    \/ \E f \in DOMAIN task : TaskCopyFail(f)
    \/ \E f \in DOMAIN task : TaskSendError(f)
    \/ \E f \in DOMAIN task : TaskCopyDone(f)

SpecCopy == InitCopy /\ [][NextCopy]_vars

\* The Go scheduler runs every goroutine that can take a step, so a step of
\* copyFiles or of a copy goroutine that stays possible is eventually taken.
TransferLoopStep == EnterGroup \/ MkdirFail \/ Dispatch \/ WaitAndReturn

CopyTaskStep ==
    \E f \in DOMAIN task :
        \/ TaskSkip(f)
        \/ TaskDryRun(f)
        \/ TaskCreate(f)
        \/ TaskCopyFail(f)
        \/ TaskSendError(f)
        \/ TaskCopyDone(f)

FairSpecCopy == SpecCopy /\ WF_vars(TransferLoopStep) /\ WF_vars(CopyTaskStep)

(***************************************************************************)
(* Vocabulary of the clustering claims, stated over the input buckets and  *)
(* the calendar, not over the scan.                                        *)
(***************************************************************************)
Detected == pc = "detected"

NumBuckets == Len(dateGroups)

BucketCount(b) == Len(dateGroups[b].files)

FilesOfBucket(b) == {dateGroups[b].files[n] : n \in 1..Len(dateGroups[b].files)}

FilesOfCluster(c) == {result[c].files[n] : n \in 1..Len(result[c].files)}

\* The clusters that hold a file of bucket b.
ClustersOf(b) == {c \in 1..Len(result) : FilesOfCluster(c) \cap FilesOfBucket(b) # {}}

\* Bucket b + 1 is dated the calendar day after bucket b.
NextCalendarDay(a, b) == Ordinal(dateGroups[b].date) = Ordinal(dateGroups[a].date) + 1

\* YYYYMMDD of a bucket's day.
DayName(b) ==
    ToString(dateGroups[b].date.y * 10000 + dateGroups[b].date.m * 100 + dateGroups[b].date.d)

MeetsConsecutive(b) == BucketCount(b) >= thresholdConsecutiveDays

MeetsSingle(b) == BucketCount(b) >= thresholdOneDay

\* Buckets b and b + 1 are linked: contiguous days that both meet the
\* consecutive threshold.
Linked(b) ==
    /\ b >= 1 /\ b < NumBuckets
    /\ MeetsConsecutive(b) /\ MeetsConsecutive(b + 1)
    /\ NextCalendarDay(b, b + 1)

\* Buckets a..b are a maximal run of length >= 2.
MaximalRun(a, b) ==
    /\ a < b
    /\ \A k \in a..(b - 1) : Linked(k)
    /\ ~Linked(a - 1)
    /\ ~Linked(b)

InMergedRun(b) == Linked(b - 1) \/ Linked(b)

Occurrences(seq, x) == Cardinality({n \in 1..Len(seq) : seq[n] = x})

InputFiles == Concat([b \in 1..NumBuckets |-> dateGroups[b].files])

OutputFiles == Concat([c \in 1..Len(result) |-> result[c].files])

SeqRange(seq) == {seq[n] : n \in 1..Len(seq)}

\* C1: the clusters returned by detectConsecutiveDays hold every input file
\* exactly once: the multiset of the clusters' files is the multiset of the
\* buckets' files.
C1_Partition ==
    Detected =>
        /\ SeqRange(OutputFiles) = SeqRange(InputFiles)
        /\ \A x \in SeqRange(InputFiles) :
               Occurrences(OutputFiles, x) = Occurrences(InputFiles, x)
        /\ Len(OutputFiles) = Len(InputFiles)

\* Four buckets came out as two clusters, one of them a merged run.
C1_Witness ==
    /\ Detected
    /\ NumBuckets = 4
    /\ Len(result) = 2
    /\ \E c \in 1..Len(result) : Len(result[c].files) > MaxCount

\* C2: every maximal run of length >= 2 of contiguous days that each meet the
\* consecutive threshold is emitted as exactly one cluster, holding all files
\* of the run, with destDir firstDay-lastDay; no other cluster takes a file
\* of the run.
C2_RunMerged ==
    Detected =>
        \A a \in 1..NumBuckets : \A b \in 1..NumBuckets :
            MaximalRun(a, b) =>
                LET runFiles == Concat([k \in 1..(b - a + 1) |-> dateGroups[a + k - 1].files])
                    hits == {c \in 1..Len(result) :
                                FilesOfCluster(c) \cap SeqRange(runFiles) # {}}
                IN  /\ Cardinality(hits) = 1
                    /\ \A c \in hits :
                           /\ result[c].files = runFiles
                           /\ result[c].destDir = DayName(a) \o "-" \o DayName(b)

\* A maximal run of three buckets across the year boundary was merged.
C2_Witness ==
    /\ Detected
    /\ \E a \in 1..NumBuckets :
           /\ a + 2 <= NumBuckets
           /\ MaximalRun(a, a + 2)
           /\ dateGroups[a].date.y < dateGroups[a + 2].date.y
           /\ \E c \in 1..Len(result) :
                  result[c].destDir = DayName(a) \o "-" \o DayName(a + 2)

\* C3: adjacent buckets that are not exactly one calendar day apart are never
\* in the same cluster, so the buckets of one cluster are on contiguous days.
C3_GapSplits ==
    Detected =>
        /\ \A b \in 1..(NumBuckets - 1) :
               ~NextCalendarDay(b, b + 1) => ClustersOf(b) \cap ClustersOf(b + 1) = {}
        /\ \A a \in 1..NumBuckets : \A b \in 1..NumBuckets :
               (a < b /\ ClustersOf(a) \cap ClustersOf(b) # {}) =>
                   Ordinal(dateGroups[b].date) - Ordinal(dateGroups[a].date) = b - a

\* Days 1,2,4,5 all meeting the threshold: two range clusters.
C3_Witness ==
    /\ Detected
    /\ NumBuckets = 4
    /\ \A b \in 1..4 : MeetsConsecutive(b)
    /\ NextCalendarDay(1, 2) /\ NextCalendarDay(3, 4) /\ ~NextCalendarDay(2, 3)
    /\ Len(result) = 2
    /\ result[1].destDir = DayName(1) \o "-" \o DayName(2)
    /\ result[2].destDir = DayName(3) \o "-" \o DayName(4)

\* C4: every bucket below the single-day threshold that is in no merged run
\* is emitted as its own cluster with destDir ".".
C4_LowVolumeToRoot ==
    Detected =>
        \A b \in 1..NumBuckets :
            (~MeetsSingle(b) /\ ~InMergedRun(b)) =>
                /\ Cardinality(ClustersOf(b)) = 1
                /\ \A c \in ClustersOf(b) :
                       /\ result[c].files = dateGroups[b].files
                       /\ result[c].destDir = "."

\* A bucket meeting the consecutive threshold whose next-day neighbour fails
\* it: two "." clusters.
C4_Witness ==
    /\ Detected
    /\ NumBuckets = 2
    /\ NextCalendarDay(1, 2)
    /\ MeetsConsecutive(1) /\ ~MeetsSingle(1)
    /\ ~MeetsConsecutive(2) /\ ~MeetsSingle(2)
    /\ Len(result) = 2
    /\ result[1].destDir = "." /\ result[2].destDir = "."

\* C5: a bucket that is in no merged run is emitted as its own cluster, with
\* destDir its own day (YYYYMMDD) if and only if its count >= the single-day
\* threshold, and "." otherwise.
C5_SingleDayInclusive ==
    Detected =>
        \A b \in 1..NumBuckets :
            ~InMergedRun(b) =>
                /\ Cardinality(ClustersOf(b)) = 1
                /\ \A c \in ClustersOf(b) :
                       /\ result[c].files = dateGroups[b].files
                       /\ (result[c].destDir = DayName(b)) <=> MeetsSingle(b)
                       /\ (result[c].destDir = ".") <=> ~MeetsSingle(b)

\* One bucket exactly at the threshold and one exactly one below it.
C5_Witness ==
    /\ Detected
    /\ \E a \in 1..NumBuckets : \E b \in 1..NumBuckets :
           /\ ~InMergedRun(a) /\ ~InMergedRun(b)
           /\ BucketCount(a) = thresholdOneDay
           /\ BucketCount(b) = thresholdOneDay - 1
           /\ \E c \in ClustersOf(a) : result[c].destDir = DayName(a)
           /\ \E c \in ClustersOf(b) : result[c].destDir = "."

\* Bucket b is emitted inside a range cluster together with bucket b + 1 and
\* not as a single-day cluster.
InRangeClusterWithNext(b) ==
    /\ \E c \in 1..Len(result) :
           /\ FilesOfBucket(b) \cup FilesOfBucket(b + 1) \subseteq FilesOfCluster(c)
           /\ result[c].destDir \notin {".", DayName(b)}
    /\ ~\E c \in 1..Len(result) :
           result[c].files = dateGroups[b].files /\ result[c].destDir = DayName(b)

\* C6 as claimed: a bucket meeting the single-day threshold whose next bucket
\* is the following day and meets the consecutive threshold is emitted inside
\* the range cluster, never as a single-day cluster.
C6_Original ==
    Detected =>
        \A b \in 1..(NumBuckets - 1) :
            (MeetsSingle(b) /\ NextCalendarDay(b, b + 1) /\ MeetsConsecutive(b + 1)) =>
                InRangeClusterWithNext(b)

\* C6 amended: the same, for a bucket that itself also meets the consecutive
\* threshold.
C6_RunPrecedence ==
    Detected =>
        \A b \in 1..(NumBuckets - 1) :
            (MeetsSingle(b) /\ MeetsConsecutive(b)
                /\ NextCalendarDay(b, b + 1) /\ MeetsConsecutive(b + 1)) =>
                InRangeClusterWithNext(b)

\* A bucket exactly at the single-day threshold followed by a next-day bucket
\* exactly at the (lower) consecutive threshold: merged.
C6_Witness ==
    /\ Detected
    /\ NumBuckets = 2
    /\ thresholdConsecutiveDays < thresholdOneDay
    /\ BucketCount(1) = thresholdOneDay
    /\ BucketCount(2) = thresholdConsecutiveDays
    /\ NextCalendarDay(1, 2)
    /\ Len(result) = 1
    /\ result[1].destDir = DayName(1) \o "-" \o DayName(2)

(***************************************************************************)
(* Claims about groupFilesByDate.                                          *)
(***************************************************************************)
Grouped == pc = "grouped"

SameCalendarDay(t, u) == t.y = u.y /\ t.m = u.m /\ t.d = u.d

\* t is on an earlier calendar day than u.
EarlierDay(t, u) ==
    \/ t.y < u.y
    \/ t.y = u.y /\ t.m < u.m
    \/ t.y = u.y /\ t.m = u.m /\ t.d < u.d

GroupedFiles == Concat([g \in 1..Len(groups) |-> groups[g].files])

\* C7: groupFilesByDate returns its buckets ordered ascending by date: of
\* every two adjacent buckets the earlier index holds the earlier day.
C7_Ascending ==
    Grouped =>
        \A g \in 1..(Len(groups) - 1) : EarlierDay(groups[g].date, groups[g + 1].date)

\* C8: two records are in the same bucket if and only if their timestamps are
\* on the same calendar day; every input name is in exactly one bucket, there
\* is one bucket per distinct day, and an empty input yields no bucket.
C8_GroupByDay ==
    Grouped =>
        /\ \A a \in 1..Len(filesWithDates) : \A b \in 1..Len(filesWithDates) :
               (\E g \in 1..Len(groups) :
                    {filesWithDates[a].name, filesWithDates[b].name}
                        \subseteq SeqRange(groups[g].files))
               <=> SameCalendarDay(filesWithDates[a].date, filesWithDates[b].date)
        /\ \A a \in 1..Len(filesWithDates) :
               Occurrences(GroupedFiles, filesWithDates[a].name) = 1
        /\ Len(GroupedFiles) = Len(filesWithDates)
        /\ Len(groups) =
               Cardinality({<<filesWithDates[a].date.y, filesWithDates[a].date.m,
                              filesWithDates[a].date.d>> : a \in 1..Len(filesWithDates)})
        /\ (filesWithDates = <<>> => groups = <<>>)

\* Two records of one day at different hours and a third of another day of
\* the same month: two buckets.
C8_Witness ==
    /\ Grouped
    /\ Len(filesWithDates) = 3
    /\ SameCalendarDay(filesWithDates[1].date, filesWithDates[3].date)
    /\ filesWithDates[1].date.h # filesWithDates[3].date.h
    /\ ~SameCalendarDay(filesWithDates[1].date, filesWithDates[2].date)
    /\ filesWithDates[1].date.m = filesWithDates[2].date.m
    /\ Len(groups) = 2
    /\ \E g \in 1..2 : groups[g].files = <<filesWithDates[1].name, filesWithDates[3].name>>

(***************************************************************************)
(* Claims about the transfer phase of copyFiles.                           *)
(***************************************************************************)
Returned == pc = "returned"

Dispatched(f) == task[f].pc # "idle"

Finished(f) == task[f].pc = "done"

\* The error copyFiles returned names the file f.
Reports(f) == retErr.kind = "join" /\ f \in SeqRange(retErr.errs)

\* C9: on every return path of copyFiles every dispatched copy task has
\* completed, and every error a task collected is in the returned error.
C9_AllAwaited ==
    Returned =>
        \A f \in DOMAIN task :
            /\ Dispatched(f) => Finished(f)
            /\ task[f].outcome = "failed" => Reports(f)

PlannedFiles ==
    UNION { SeqRange(finalGroups[c].files) : c \in 1..Len(finalGroups) }

\* The destination path of f existed before the call.
ExistedBefore(f) == \E p \in dstBefore : p = joinPath(task[f].destDir, f)

\* C10: when copyFiles returns after the transfer loop, every file of every
\* cluster has been attempted whether or not a sibling failed: it was skipped
\* exactly when its destination existed and overwrite is off, and otherwise
\* counted or reported as failed on its own.
C10_FailSoft ==
    (Returned /\ retErr.kind # "mkdir") =>
        /\ PlannedFiles = DOMAIN task
        /\ \A f \in DOMAIN task :
               /\ Finished(f)
               /\ task[f].outcome \in {"skipped", "counted", "failed"}
               /\ task[f].outcome = "skipped" <=> (~flagOverwrite /\ ExistedBefore(f))
               /\ (flagDryRun /\ task[f].outcome # "skipped") => task[f].outcome = "counted"
               /\ task[f].outcome = "failed" => Reports(f)

\* One copy failed, and a file of another cluster, dispatched later, was
\* still copied.
C10_Witness ==
    /\ Returned
    /\ retErr.kind = "join"
    /\ Len(finalGroups) = 2
    /\ \E f \in SeqRange(finalGroups[1].files) : \E g \in SeqRange(finalGroups[2].files) :
           /\ task[f].outcome = "failed"
           /\ task[g].outcome = "counted"
           /\ joinPath(task[g].destDir, g) \in DOMAIN dstFS
           /\ dstFS[joinPath(task[g].destDir, g)] = "copied"

\* The number of files whose copy task ended with the given outcome.
NumOutcome(outcome) == Cardinality({f \in DOMAIN task : task[f].outcome = outcome})

\* C11: copyFiles returns a joined error exactly when at least one per-file
\* copy failed, the joined error names every failed file exactly once and no
\* other file, and the returned count is the number of files that succeeded.
C11_ErrorAggregation ==
    Returned =>
        /\ retErr.kind = "join" <=> NumOutcome("failed") > 0
        /\ \A f \in DOMAIN task :
               IF task[f].outcome = "failed"
               THEN retErr.kind = "join" /\ Occurrences(retErr.errs, f) = 1
               ELSE ~Reports(f)
        /\ retCount = NumOutcome("counted")

\* A per-file copy has failed.
SomeCopyFailed == \E f \in DOMAIN task : task[f].pc = "sending" \/ task[f].outcome = "failed"

\* No goroutine is blocked on its send to errsChan.
NoSendBlocked ==
    \A f \in DOMAIN task : task[f].pc = "sending" => Len(errsChan) < errsChanCapacity

\* copyFiles has passed wg.Wait() and returned the joined error.
ReturnedPastBarrier == Returned /\ retErr.kind # "mkdir"

\* C12: whenever per-file copies fail, however many, no worker blocks on
\* reporting its error, copyFiles reaches and passes the wait barrier and
\* returns a non-nil error with a count that excludes the failed files.
C12_NoDeadlock ==
    /\ []NoSendBlocked
    /\ SomeCopyFailed ~> (/\ ReturnedPastBarrier
                          /\ retErr.kind = "join"
                          /\ retCount = NumOutcome("counted"))

\* C13: with overwrite off, a file whose destination path existed before the
\* call is skipped: the destination keeps its content, the file is neither
\* counted nor reported as an error.  With overwrite on no file is skipped,
\* and a file that is copied replaces whatever was at its destination.
C13_SkipOnConflict ==
    /\ count = NumOutcome("counted")
    /\ \A f \in DOMAIN task :
           Dispatched(f) =>
               /\ (~flagOverwrite /\ ExistedBefore(f)) =>
                      /\ dstFS[dstPathOf(f)] = "old"
                      /\ task[f].pc \in {"start", "done"}
                      /\ task[f].outcome \in {"none", "skipped"}
                      /\ f \notin SeqRange(errsChan)
                      /\ ~Reports(f)
               /\ flagOverwrite =>
                      /\ task[f].outcome # "skipped"
                      /\ (task[f].outcome = "counted" /\ ~flagDryRun) =>
                             dstFS[dstPathOf(f)] = "copied"

\* With overwrite off one file was skipped over an existing destination while
\* another file of the same call was copied and counted.
C13_Witness ==
    /\ Returned
    /\ ~flagOverwrite
    /\ ~flagDryRun
    /\ retErr = NilError
    /\ retCount = 1
    /\ \E f \in DOMAIN task : \E g \in DOMAIN task :
           /\ ExistedBefore(f)
           /\ task[f].outcome = "skipped"
           /\ dstFS[dstPathOf(f)] = "old"
           /\ task[g].outcome = "counted"
           /\ dstFS[dstPathOf(g)] = "copied"

\* C35: without dry run, while the go statements of a cluster with a date
\* subfolder are executed and whenever a copy goroutine for a file of such
\* a cluster exists, os.MkdirAll of dstDir/destDir has succeeded before;
\* in a dry run no directory is created.
C35_MkdirBeforeDispatch ==
    /\ ~flagDryRun =>
           /\ (pc = "dispatch" /\ finalGroups[gi].destDir # ".") =>
                  actualDestDirOf(finalGroups[gi]) \in dirs
           /\ \A f \in DOMAIN task :
                  (Dispatched(f) /\ task[f].destDir # dstDir) => task[f].destDir \in dirs
    /\ flagDryRun => dirs = {}

\* The go statements of the second date subfolder are being executed: both
\* subfolders exist, and a goroutine of the first one has not started its
\* copy yet.
C35_Witness ==
    /\ ~flagDryRun
    /\ pc = "dispatch"
    /\ gi = 2
    /\ finalGroups[1].destDir # "."
    /\ finalGroups[2].destDir # "."
    /\ {actualDestDirOf(finalGroups[1]), actualDestDirOf(finalGroups[2])} \subseteq dirs
    /\ Cardinality(dirs) = 2
    /\ \E f \in SeqRange(finalGroups[1].files) : task[f].pc = "start"

\* The places <<cluster, index>> of the file names in finalGroups.
clusterPlaces ==
    UNION { {<<c, n>> : n \in 1..Len(finalGroups[c].files)} : c \in 1..Len(finalGroups) }

placeName(s) == finalGroups[s[1]].files[s[2]]

\* Lines 229-230: the destination path of the goroutine of a place.
placePath(s) == joinPath(actualDestDirOf(finalGroups[s[1]]), placeName(s))

\* The files for which a copy goroutine has been started.
DispatchedFiles == {f \in DOMAIN task : Dispatched(f)}

\* C33: under every interleaving of the copy goroutines the atomic counter
\* is the number of files counted so far, and when copyFiles returns every
\* dispatched file has ended as exactly one of skipped, counted and
\* failed, the returned count is the number of counted files, and count,
\* errors and skips add up to the number of dispatched files.
C33_ExactlyOneOutcome ==
    /\ count = NumOutcome("counted")
    /\ \A f \in DOMAIN task :
           (task[f].outcome # "none") <=> Finished(f)
    /\ Returned =>
           /\ \A f \in DispatchedFiles :
                  task[f].outcome \in {"skipped", "counted", "failed"}
           /\ retCount = NumOutcome("counted")
           /\ retCount + NumOutcome("failed") + NumOutcome("skipped")
                  = Cardinality(DispatchedFiles)

\* C36: every file name is at one place of one cluster, so the destination
\* paths of the go statements are pairwise distinct, and so are those of the
\* copy goroutines that have been started, each of which writes the path of
\* the place of its file.
C36_DistinctDestinations ==
    /\ \A a \in clusterPlaces : \A b \in clusterPlaces :
           a # b => (placeName(a) # placeName(b) /\ placePath(a) # placePath(b))
    /\ \A f \in DispatchedFiles :
           /\ \E s \in clusterPlaces : placeName(s) = f /\ placePath(s) = dstPathOf(f)
           /\ \A g \in DispatchedFiles : f # g => dstPathOf(f) # dstPathOf(g)

\* Two goroutines of one cluster are writing their destination files at the
\* same time, into the same date subfolder.
C36_Witness ==
    /\ ~flagDryRun
    /\ \E f \in DOMAIN task : \E g \in DOMAIN task :
           /\ f # g
           /\ task[f].pc = "copying"
           /\ task[g].pc = "copying"
           /\ task[f].destDir = task[g].destDir
           /\ task[f].destDir # dstDir
           /\ dstFS[dstPathOf(f)] = "partial"
           /\ dstFS[dstPathOf(g)] = "partial"

(***************************************************************************)
(* copyFiles: the first pass, lines 150-197.  One goroutine per directory  *)
(* entry reads the EXIF date of a matching file and appends a record to    *)
(* the slice filesWithDates, which all the goroutines share without a      *)
(* lock: the append reads the slice header and later writes back the       *)
(* header of the extended slice.  In a dry run the transfer phase that     *)
(* follows only counts, so a whole dry-run call is the first pass and the  *)
(* count of its result.  Two calls are made in a row on the same           *)
(* directories.                                                            *)
(***************************************************************************)
MaxEntries == 3       \* entries of the source directory

\* strings.ToLower on the extensions that occur.
ToLower(e) ==
    CASE e = "ARW" -> "arw"
      [] e = "Raw" -> "raw"
      [] e \in {"XMP", "Xmp"} -> "xmp"
      [] OTHER -> e

\* strings.EqualFold on extensions.
EqualFold(a, b) == ToLower(a) = ToLower(b)

\* A file without a readable EXIF date.
NoDate == [y |-> 0, m |-> 0, d |-> 0, h |-> 0]

\* The kinds of directory entry: a subdirectory, a file of another
\* extension, matching files without and with an EXIF date.
EntryKinds ==
    << [isDir |-> TRUE,  ext |-> "",    date |-> NoDate],
       [isDir |-> FALSE, ext |-> "jpg", date |-> Calendar[0]],
       [isDir |-> FALSE, ext |-> "arw", date |-> NoDate],
       [isDir |-> FALSE, ext |-> "arw", date |-> Calendar[0]],
       [isDir |-> FALSE, ext |-> "ARW", date |-> Calendar[1]] >>

entryOf(n, kind) ==
    [name  |-> IF kind.isDir THEN "dir" \o ToString(n)
               ELSE "file" \o ToString(n) \o "." \o kind.ext,
     isDir |-> kind.isDir,
     ext   |-> kind.ext,
     date  |-> kind.date]

\* Directory listings of up to maxLen entries.
EntryListsUpTo(maxLen) ==
    UNION { {[n \in 1..len |-> entryOf(n, EntryKinds[ks[n]])] :
                ks \in {k \in [1..len -> 1..Len(EntryKinds)] :
                           \A a \in 1..len : \A b \in a..len : k[a] <= k[b]}} :
            len \in 0..maxLen }

EntryLists == EntryListsUpTo(MaxEntries)

\* Lines 161-188: the entry is a file of the extension whose EXIF date can be
\* read.
yieldsRecord(entry, e) ==
    /\ ~entry.isDir
    /\ EqualFold(entry.ext, e)
    /\ entry.date # NoDate

recordOf(entry) == [name |-> entry.name, date |-> entry.date]

\* The records of a first pass in which no append is lost.
RECURSIVE fullExtraction(_, _, _)
fullExtraction(entries, e, n) ==
    IF n = 0 THEN <<>>
    ELSE IF yieldsRecord(entries[n], e)
         THEN Append(fullExtraction(entries, e, n - 1), recordOf(entries[n]))
         ELSE fullExtraction(entries, e, n - 1)

\* Lines 195-264 in a dry run: the number of records whose destination does
\* not exist or may be overwritten.
dryRunCount(fwds, order) ==
    IF Len(fwds) = 0 THEN 0
    ELSE LET plan == planOf(fwds, thresholdOneDay, thresholdConsecutiveDays, order)
         IN  Cardinality({cn \in UNION {{<<c, n>> : n \in 1..Len(plan[c].files)} :
                                           c \in 1..Len(plan)} :
                 \/ flagOverwrite
                 \/ joinPath(actualDestDirOf(plan[cn[1]]), plan[cn[1]].files[cn[2]])
                        \notin DOMAIN dstFS})

freshGoroutines == [i \in 1..Len(srcEntries) |-> [pc |-> "run", seen |-> <<>>]]

InitExtract ==
    /\ pc = "extract"
    /\ srcEntries \in EntryLists
    /\ ext = "arw"
    /\ extract = freshGoroutines
    /\ calls = <<>>
    /\ filesWithDates = <<>>
    /\ \E tp \in ThresholdPairs :
           thresholdOneDay = tp[1] /\ thresholdConsecutiveDays = tp[2]
    /\ flagDryRun = TRUE
    /\ flagOverwrite \in BOOLEAN
    /\ dstBefore \in {S \in SUBSET TargetPaths(fullExtraction(srcEntries, ext, Len(srcEntries)),
                                               thresholdOneDay, thresholdConsecutiveDays) :
                         Cardinality(S) <= 1}
    /\ dstFS = [p \in dstBefore |-> "old"]
    /\ dirs = {}
    /\ task = <<>>
    /\ dateGroups = <<>>
    /\ finalGroups = <<>>
    /\ gi = 1
    /\ fi = 1
    /\ count = 0
    /\ errsChan = <<>>
    /\ wg = 0
    /\ retCount = 0
    /\ retErr = NilError
    /\ result = <<>>
    /\ groups = <<>>
    /\ ZombieNotStarted
    /\ CleanNotStarted
    /\ AuxNotStarted

\* Lines 161-168: the entry is a file whose extension is e, case ignored.
matchesExt(entry, e) == ~entry.isDir /\ EqualFold(entry.ext, e)

\* The goroutine of entry i returns without a record.
returnsNothing(i) ==
    /\ pc = "extract"
    /\ extract[i].pc = "run"
    /\ extract' = [extract EXCEPT ![i].pc = "done"]
    /\ UNCHANGED <<pc, detectVars, groupVars, copyVars, srcEntries, ext, calls,
                   zombieVars, cleanVars, auxVars>>

\* Lines 161-168: the entry is a directory or has another extension.
ExtractNothing(i) ==
    /\ ~matchesExt(srcEntries[i], ext)
    /\ returnsNothing(i)

\* Lines 171-175: os.Open fails; the error is logged.
ExtractOpenError(i) ==
    /\ matchesExt(srcEntries[i], ext)
    /\ srcEntries[i].date = NoDate
    /\ returnsNothing(i)

\* Lines 177-182: exif.Decode fails; the error is logged.
ExtractDecodeError(i) ==
    /\ matchesExt(srcEntries[i], ext)
    /\ srcEntries[i].date = NoDate
    /\ returnsNothing(i)

\* Variant of ExtractNoDateTag that goes on with the zero time.Time.
ExtractNoDateTagIgnored(i) ==
    /\ pc = "extract"
    /\ extract[i].pc = "run"
    /\ matchesExt(srcEntries[i], ext)
    /\ srcEntries[i].date = NoDate
    /\ extract' = [extract EXCEPT ![i] = [pc |-> "append", seen |-> filesWithDates]]
    /\ UNCHANGED <<pc, detectVars, groupVars, copyVars, srcEntries, ext, calls,
                   zombieVars, cleanVars, auxVars>>

\* Lines 184-188: exifData.DateTime() fails; the error is logged.
ExtractNoDateTag(i) ==
    /\ matchesExt(srcEntries[i], ext)
    /\ srcEntries[i].date = NoDate
    /\ returnsNothing(i)

\* Line 190, first half: the goroutine has the date and reads the slice
\* header of filesWithDates.
ExtractRead(i) ==
    /\ pc = "extract"
    /\ extract[i].pc = "run"
    /\ yieldsRecord(srcEntries[i], ext)
    /\ extract' = [extract EXCEPT ![i] = [pc |-> "append", seen |-> filesWithDates]]
    /\ UNCHANGED <<pc, detectVars, groupVars, copyVars, srcEntries, ext, calls,
                   zombieVars, cleanVars, auxVars>>

\* Line 190, second half: the goroutine stores its record behind the
\* elements it saw and writes the new slice header back.
ExtractAppend(i) ==
    /\ pc = "extract"
    /\ extract[i].pc = "append"
    /\ filesWithDates' = Append(extract[i].seen, recordOf(srcEntries[i]))
    /\ extract' = [extract EXCEPT ![i] = [pc |-> "done", seen |-> <<>>]]
    /\ UNCHANGED <<pc, detectVars, groups, copyVars, srcEntries, ext, calls,
                   zombieVars, cleanVars, auxVars>>

\* Lines 193-264 in a dry run: wg.Wait() returns and the call returns the
\* count of the records; the next call starts on the same directories.
DryRunReturn ==
    /\ pc = "extract"
    /\ \A i \in 1..Len(srcEntries) : extract[i].pc = "done"
    /\ \E order \in IterationOrders(buildDateMap(filesWithDates, 1, EmptyMap)) :
           retCount' = dryRunCount(filesWithDates, order)
    /\ calls' = Append(calls, retCount')
    /\ IF calls = <<>>
       THEN /\ extract' = freshGoroutines
            /\ filesWithDates' = <<>>
            /\ pc' = "extract"
       ELSE /\ UNCHANGED <<extract, filesWithDates>>
            /\ pc' = "compared"
    /\ UNCHANGED <<detectVars, groups, flagDryRun, flagOverwrite, finalGroups, gi, fi,
                   task, count, errsChan, wg, dstFS, dstBefore, dirs, retErr,
                   srcEntries, ext, zombieVars, cleanVars, auxVars>>

NextExtract ==
    \/ \E i \in 1..Len(srcEntries) : ExtractNothing(i)
    \/ \E i \in 1..Len(srcEntries) : ExtractOpenError(i)
    \/ \E i \in 1..Len(srcEntries) : ExtractDecodeError(i)
    \/ \E i \in 1..Len(srcEntries) : ExtractNoDateTag(i)
    \/ \E i \in 1..Len(srcEntries) : ExtractRead(i)
    \/ \E i \in 1..Len(srcEntries) : ExtractAppend(i)
    \/ DryRunReturn

SpecExtract == InitExtract /\ [][NextExtract]_vars

\* In a dry run the transfer phase returns the count of its records.
DryRunCountAsPlanned ==
    (Returned /\ flagDryRun) =>
        \E order \in IterationOrders(buildDateMap(filesWithDates, 1, EmptyMap)) :
            retCount = dryRunCount(filesWithDates, order)

(***************************************************************************)
(* deleteZombieEditFiles (src/unnamed/part_005) on one directory of plain  *)
(* files.  A file name is a base and an extension; the goroutine of an     *)
(* entry tests the suffix of the name, looks for the raw files with        *)
(* os.Stat and removes the edit file when none is found.  Whether os.Stat  *)
(* finds a file whose name differs in case only is a property of the file  *)
(* system.                                                                 *)
(***************************************************************************)
MaxZombieFiles == 4   \* files in the directory

\* main.go / part_000: the configured extensions.
ExtensionsToCopy == <<"arw", "raw">>

EditFileExtensions == <<"xmp">>

fileName(f) == f.base \o "." \o f.ext

\* The files a directory is composed of.
FileUniverse ==
    { [base |-> "valid", ext |-> "xmp"],   [base |-> "valid", ext |-> "XMP"],
      [base |-> "valid", ext |-> "arw"],   [base |-> "valid", ext |-> "ARW"],
      [base |-> "valid", ext |-> "raw"],   [base |-> "zombie1", ext |-> "xmp"],
      [base |-> "zombie1", ext |-> "XMP"], [base |-> "zombie2", ext |-> "xmp"] }

\* Two names the file system cannot hold side by side.
sameFile(f, g) ==
    /\ f.base = g.base
    /\ IF caseSensitive THEN f.ext = g.ext ELSE EqualFold(f.ext, g.ext)

\* os.Stat of base.e succeeds.
statFinds(base, e) == \E g \in zFS : sameFile(g, [base |-> base, ext |-> e])

\* Line 43: strings.HasSuffix(editFileName, "."+editFileExtension).
hasEditSuffix(f, editFileExtension) == f.ext = editFileExtension

\* Variant of hasCorrespondingRawFile that tries the first raw extension only.
hasCorrespondingRawFileFirstOnly(f, rawFileExtensions) ==
    statFinds(f.base, rawFileExtensions[1])

\* Lines 47-59: some base.rawFileExt exists.
hasCorrespondingRawFile(f, rawFileExtensions) ==
    \E k \in 1..Len(rawFileExtensions) : statFinds(f.base, rawFileExtensions[k])

InitZombie ==
    /\ pc = "zombie"
    /\ caseSensitive \in BOOLEAN
    /\ zBefore \in {S \in SUBSET FileUniverse :
                       /\ Cardinality(S) <= MaxZombieFiles
                       /\ \A f \in S : \A g \in S : sameFile(f, g) => f = g}
    /\ zFS = zBefore
    /\ ztask = [f \in zBefore |-> "run"]
    /\ zcount = 0
    /\ zerrs = <<>>
    /\ zret = NoReturn
    /\ zprobe = {}
    /\ dateGroups = <<>>
    /\ thresholdOneDay = 0
    /\ thresholdConsecutiveDays = 0
    /\ result = <<>>
    /\ filesWithDates = <<>>
    /\ groups = <<>>
    /\ CopyNotStarted
    /\ ExtractNotStarted
    /\ CleanNotStarted
    /\ AuxNotStarted

\* Lines 42-45 and 61-63: the entry is no edit file, or it has a raw file.
ZombieKeep(f) ==
    /\ ztask[f] = "run"
    /\ \/ ~hasEditSuffix(f, EditFileExtensions[1])
       \/ hasCorrespondingRawFile(f, ExtensionsToCopy)
    /\ ztask' = [ztask EXCEPT ![f] = "done"]
    /\ UNCHANGED <<pc, detectVars, groupVars, copyVars, extractVars, cleanVars, auxVars,
                   caseSensitive, zFS, zBefore, zcount, zerrs, zret, zprobe>>

\* Lines 47-59: an edit file for which no os.Stat finds a raw file.
ZombieFound(f) ==
    /\ ztask[f] = "run"
    /\ hasEditSuffix(f, EditFileExtensions[1])
    /\ ~hasCorrespondingRawFile(f, ExtensionsToCopy)
    /\ ztask' = [ztask EXCEPT ![f] = "remove"]
    /\ UNCHANGED <<pc, detectVars, groupVars, copyVars, extractVars, cleanVars, auxVars,
                   caseSensitive, zFS, zBefore, zcount, zerrs, zret, zprobe>>

\* Variant of ZombieStatError that takes the failed os.Stat for "no raw file".
ZombieStatErrorAsMissing(f) ==
    /\ ztask[f] = "run"
    /\ hasEditSuffix(f, EditFileExtensions[1])
    /\ zprobe' = zprobe \cup {f}
    /\ ztask' = [ztask EXCEPT ![f] = "remove"]
    /\ UNCHANGED <<pc, detectVars, groupVars, copyVars, extractVars, cleanVars, auxVars,
                   caseSensitive, zFS, zBefore, zcount, zerrs, zret>>

\* Lines 55-58: an os.Stat fails with an error other than ErrNotExist.
ZombieStatError(f) ==
    /\ ztask[f] = "run"
    /\ hasEditSuffix(f, EditFileExtensions[1])
    /\ Len(zerrs) < Cardinality(zBefore)
    /\ zerrs' = Append(zerrs, [kind |-> "stat", file |-> f])
    /\ ztask' = [ztask EXCEPT ![f] = "done"]
    /\ zprobe' = zprobe \cup {f}
    /\ UNCHANGED <<pc, detectVars, groupVars, copyVars, extractVars, cleanVars, auxVars,
                   caseSensitive, zFS, zBefore, zcount, zret>>

\* Lines 65-71: os.Remove succeeds and the file is counted.
ZombieRemove(f) ==
    /\ ztask[f] = "remove"
    /\ zFS' = zFS \ {f}
    /\ zcount' = zcount + 1
    /\ ztask' = [ztask EXCEPT ![f] = "done"]
    /\ UNCHANGED <<pc, detectVars, groupVars, copyVars, extractVars, cleanVars, auxVars,
                   caseSensitive, zBefore, zerrs, zret, zprobe>>

\* Lines 65-68: os.Remove fails.
ZombieRemoveError(f) ==
    /\ ztask[f] = "remove"
    /\ Len(zerrs) < Cardinality(zBefore)
    /\ zerrs' = Append(zerrs, [kind |-> "remove", file |-> f])
    /\ ztask' = [ztask EXCEPT ![f] = "done"]
    /\ UNCHANGED <<pc, detectVars, groupVars, copyVars, extractVars, cleanVars, auxVars,
                   caseSensitive, zFS, zBefore, zcount, zret, zprobe>>

\* Lines 75-83: wg.Wait(), the channel is closed and drained.
ZombieReturn ==
    /\ pc = "zombie"
    /\ \A f \in zBefore : ztask[f] = "done"
    /\ zret' = [count |-> zcount, err |-> joinErrors(zerrs)]
    /\ zerrs' = <<>>
    /\ pc' = "zreturned"
    /\ UNCHANGED <<detectVars, groupVars, copyVars, extractVars, cleanVars, auxVars,
                   caseSensitive, zFS, zBefore, ztask, zcount, zprobe>>

NextZombie ==
    \/ \E f \in zBefore : ZombieKeep(f)
    \/ \E f \in zBefore : ZombieFound(f)
    \/ \E f \in zBefore : ZombieStatError(f)
    \/ \E f \in zBefore : ZombieRemove(f)
    \/ \E f \in zBefore : ZombieRemoveError(f)
    \/ ZombieReturn

SpecZombie == InitZombie /\ [][NextZombie]_vars

(***************************************************************************)
(* deleteZombieEditFiles (src/unnamed/part_005) on a directory tree.  The  *)
(* directory dir is directory 0; directory k + 1 is the subdirectory       *)
(* "subdir" of directory k, and directory -1 is the empty subdirectory     *)
(* "album.xmp" of dir, a directory named like an edit file.  An entry is a *)
(* record [dir, base, ext, isDir].  The goroutine of a directory entry     *)
(* makes the recursive call when isRecursive is set; every call has its    *)
(* own count and errsChan.  Names are looked up as written.                *)
(***************************************************************************)
MaxDepth == 1         \* depth of the deepest subdirectory below dir
MaxTreeFiles == 2     \* plain files in the whole tree
MaxFailures == 2      \* operations of one run that fail

\* The directory named like an edit file.
AlbumDir == 0 - 1

DirIds == {AlbumDir} \cup 0..MaxDepth

\* The entry of its parent directory that names directory k.
dirEntry(k) ==
    IF k = AlbumDir
    THEN [dir |-> 0, base |-> "album", ext |-> EditFileExtensions[1], isDir |-> TRUE]
    ELSE [dir |-> k - 1, base |-> "subdir", ext |-> "", isDir |-> TRUE]

\* filepath.Join(dir, entry.Name()) of a directory entry.
dirOf(e) == IF e.base = "album" THEN AlbumDir ELSE e.dir + 1

plainFile(k, base, e) == [dir |-> k, base |-> base, ext |-> e, isDir |-> FALSE]

\* The plain files a directory may hold.
TreeFileUniverse ==
    {plainFile(0, "photo", "jpg")} \cup
    UNION { { plainFile(k, "zombie1", "xmp"),
              plainFile(k, "valid", "xmp"), plainFile(k, "valid", "arw") } :
            k \in 0..MaxDepth }

\* The trees: a chain of subdirectories, the album directory or not, and at
\* most MaxTreeFiles plain files in the directories of the chain.
Trees ==
    { {dirEntry(k) : k \in D} \cup F :
        D \in { (1..depth) \cup A : depth \in 0..MaxDepth, A \in {{}, {AlbumDir}} },
        F \in { S \in SUBSET TreeFileUniverse : Cardinality(S) <= MaxTreeFiles } }

\* A tree whose plain files all lie in directories that exist.
wellFormed(tree) ==
    \A f \in tree : f.dir = 0 \/ dirEntry(f.dir) \in tree

\* Line 19: the entries os.ReadDir(k) lists.
entriesOf(k, tree) == {e \in tree : e.dir = k}

\* Variant of IsDir that takes a directory named like an edit file for a file.
IsDirUnlessEditName(e) == e.isDir /\ e.ext # EditFileExtensions[1]

\* Line 30: entry.IsDir().
IsDir(e) == e.isDir

\* Line 52: os.Stat of base.e in the directory of f succeeds.
treeStatFinds(f, e) ==
    \E g \in tFS : g.dir = f.dir /\ g.base = f.base /\ g.ext = e

\* Lines 47-59 in the directory of f.
treeHasRawFile(f, rawFileExtensions) ==
    \E k \in 1..Len(rawFileExtensions) : treeStatFinds(f, rawFileExtensions[k])

\* Variant of treeErrsCapacity for an unbuffered channel.
treeErrsUnbuffered(k) == 0

\* Line 26: make(chan error, len(entries)).
treeErrsCapacity(k) == Cardinality(entriesOf(k, tBefore))

\* Lines 24-26: the state of a call.
NotCalled == [pc |-> "none", count |-> 0, errs |-> <<>>, ret |-> NoReturn]

InitTree ==
    /\ pc = "tree"
    /\ isRecursive \in BOOLEAN
    /\ tBefore \in {tree \in Trees : wellFormed(tree)}
    /\ tFS = tBefore
    /\ ttask = [e \in tBefore |-> "idle"]
    /\ tcall = [k \in DirIds |-> IF k = 0 THEN [NotCalled EXCEPT !.pc = "called"]
                                 ELSE NotCalled]
    /\ tfail = {}
    /\ DayNotStarted
    /\ dateGroups = <<>>
    /\ thresholdOneDay = 0
    /\ thresholdConsecutiveDays = 0
    /\ result = <<>>
    /\ filesWithDates = <<>>
    /\ groups = <<>>
    /\ CopyNotStarted
    /\ ExtractNotStarted
    /\ ZombieNotStarted
    /\ CleanNotStarted

treeFrame ==
    UNCHANGED <<detectVars, groupVars, copyVars, extractVars, zombieVars, cleanVars,
                dayVars, isRecursive, tBefore>>

\* Another operation of the run may fail.
mayFail == Cardinality(tfail) < MaxFailures

\* The call for directory k returns (n, err); the outermost call returns to
\* the caller.
callReturns(k, n, err) ==
    /\ tcall' = [tcall EXCEPT ![k].pc = "returned",
                              ![k].ret = [count |-> n, err |-> err],
                              ![k].errs = <<>>]
    /\ pc' = IF k = 0 THEN "treturned" ELSE pc

\* Lines 19-22: os.ReadDir fails.
TreeReadDirError(k) ==
    /\ tcall[k].pc = "called"
    /\ mayFail
    /\ tfail' = tfail \cup {dirEntry(k)}
    /\ callReturns(k, 0, [kind |-> "readdir", dir |-> k])
    /\ UNCHANGED <<tFS, ttask>>
    /\ treeFrame

\* Lines 19 and 24-29: the directory is listed and a goroutine is started
\* for each entry.
TreeReadDir(k) ==
    /\ tcall[k].pc = "called"
    /\ tcall' = [tcall EXCEPT ![k].pc = "running"]
    /\ ttask' = [e \in tBefore |-> IF e \in entriesOf(k, tFS) THEN "run" ELSE ttask[e]]
    /\ UNCHANGED <<pc, tFS>>
    /\ UNCHANGED tfail
    /\ treeFrame

\* Variant of TreeSkipDir that makes the recursive call although isRecursive is
\* not set.
TreeDescendAnyway(e) ==
    /\ ttask[e] = "run"
    /\ IsDir(e)
    /\ ~isRecursive
    /\ ttask' = [ttask EXCEPT ![e] = "wait"]
    /\ tcall' = [tcall EXCEPT ![dirOf(e)].pc = "called"]
    /\ UNCHANGED <<pc, tFS>>
    /\ UNCHANGED tfail
    /\ treeFrame

\* Lines 30-31 and 39: a directory entry while isRecursive is not set.
TreeSkipDir(e) ==
    /\ ttask[e] = "run"
    /\ IsDir(e)
    /\ ~isRecursive
    /\ ttask' = [ttask EXCEPT ![e] = "done"]
    /\ UNCHANGED <<pc, tFS, tcall>>
    /\ UNCHANGED tfail
    /\ treeFrame

\* Line 32: the recursive call for a directory entry is made.
TreeDescend(e) ==
    /\ ttask[e] = "run"
    /\ IsDir(e)
    /\ isRecursive
    /\ ttask' = [ttask EXCEPT ![e] = "wait"]
    /\ tcall' = [tcall EXCEPT ![dirOf(e)].pc = "called"]
    /\ UNCHANGED <<pc, tFS>>
    /\ UNCHANGED tfail
    /\ treeFrame

\* Lines 33-37: count.Add(int32(n)) is reached when the recursive call
\* returned no error.
subtreeCounted(ret) == ret.err = NilError

\* Lines 32-39: the recursive call has returned; its error is sent or its
\* count is added.
TreeSubReturn(e) ==
    /\ ttask[e] = "wait"
    /\ tcall[dirOf(e)].pc = "returned"
    /\ LET ret == tcall[dirOf(e)].ret
       IN  tcall' = [tcall EXCEPT
                        ![e.dir].errs =
                            IF ret.err # NilError
                            THEN Append(@, [kind |-> "subdir", dir |-> dirOf(e),
                                            err |-> ret.err])
                            ELSE @,
                        ![e.dir].count =
                            IF subtreeCounted(ret) THEN @ + ret.count ELSE @]
    /\ ttask' = [ttask EXCEPT ![e] = "done"]
    /\ UNCHANGED <<pc, tFS>>
    /\ UNCHANGED tfail
    /\ treeFrame

\* Lines 42-45 and 61-63: a plain file that is no edit file, or that has a
\* raw file.
TreeKeep(e) ==
    /\ ttask[e] = "run"
    /\ ~IsDir(e)
    /\ \/ ~hasEditSuffix(e, EditFileExtensions[1])
       \/ treeHasRawFile(e, ExtensionsToCopy)
    /\ ttask' = [ttask EXCEPT ![e] = "done"]
    /\ UNCHANGED <<pc, tFS, tcall>>
    /\ UNCHANGED tfail
    /\ treeFrame

\* Lines 47-59: an edit file for which no os.Stat finds a raw file.
TreeFound(e) ==
    /\ ttask[e] = "run"
    /\ ~IsDir(e)
    /\ hasEditSuffix(e, EditFileExtensions[1])
    /\ ~treeHasRawFile(e, ExtensionsToCopy)
    /\ ttask' = [ttask EXCEPT ![e] = "remove"]
    /\ UNCHANGED <<pc, tFS, tcall>>
    /\ UNCHANGED tfail
    /\ treeFrame

\* Lines 55-58: an os.Stat fails with an error other than ErrNotExist.
TreeStatError(e) ==
    /\ ttask[e] = "run"
    /\ ~IsDir(e)
    /\ hasEditSuffix(e, EditFileExtensions[1])
    /\ mayFail
    /\ tfail' = tfail \cup {e}
    /\ tcall' = [tcall EXCEPT ![e.dir].errs = Append(@, [kind |-> "stat", file |-> e])]
    /\ ttask' = [ttask EXCEPT ![e] = "done"]
    /\ UNCHANGED <<pc, tFS>>
    /\ treeFrame

\* Lines 65-71: os.Remove succeeds and the file is counted.
TreeRemove(e) ==
    /\ ttask[e] = "remove"
    /\ tFS' = tFS \ {e}
    /\ tcall' = [tcall EXCEPT ![e.dir].count = @ + 1]
    /\ ttask' = [ttask EXCEPT ![e] = "done"]
    /\ UNCHANGED pc
    /\ UNCHANGED tfail
    /\ treeFrame

\* Lines 65-68: os.Remove fails.
TreeRemoveError(e) ==
    /\ ttask[e] = "remove"
    /\ mayFail
    /\ tfail' = tfail \cup {e}
    /\ tcall' = [tcall EXCEPT ![e.dir].errs = Append(@, [kind |-> "remove", file |-> e])]
    /\ ttask' = [ttask EXCEPT ![e] = "done"]
    /\ UNCHANGED <<pc, tFS>>
    /\ treeFrame

\* Lines 75-83: wg.Wait() of the call for directory k, the channel is closed
\* and drained.
TreeReturn(k) ==
    /\ tcall[k].pc = "running"
    /\ \A e \in entriesOf(k, tBefore) : ttask[e] = "done"
    /\ callReturns(k, tcall[k].count, joinErrors(tcall[k].errs))
    /\ UNCHANGED <<tFS, ttask>>
    /\ UNCHANGED tfail
    /\ treeFrame

NextTree ==
    \/ \E k \in DirIds : TreeReadDirError(k)
    \/ \E k \in DirIds : TreeReadDir(k)
    \/ \E e \in tBefore : TreeSkipDir(e)
    \/ \E e \in tBefore : TreeDescend(e)
    \/ \E e \in tBefore : TreeSubReturn(e)
    \/ \E e \in tBefore : TreeKeep(e)
    \/ \E e \in tBefore : TreeFound(e)
    \/ \E e \in tBefore : TreeStatError(e)
    \/ \E e \in tBefore : TreeRemove(e)
    \/ \E e \in tBefore : TreeRemoveError(e)
    \/ TreeReturn(0)
    \/ \E k \in DirIds \ {0} : TreeReturn(k)

SpecTree == InitTree /\ [][NextTree]_vars

\* Every goroutine that can take a step is scheduled, and a call of
\* os.ReadDir, os.Stat or os.Remove returns.
FairSpecTree == SpecTree /\ WF_vars(NextTree)

(***************************************************************************)
(* isConsecutiveDay (src/fileops.go lines 378-383) on pairs of timestamps  *)
(* around the ends of months and years, in leap and common years.          *)
(***************************************************************************)
day(y, m, d) == [y |-> y, m |-> m, d |-> d, h |-> 0]

\* The calendar days of the calls: those of TestIsConsecutiveDay and the days
\* around the end of February, of a 30-day month and of a century year.
ProbeDays ==
    { day(2026, 1, 15), day(2026, 1, 16), day(2026, 1, 17),
      day(2026, 1, 30), day(2026, 1, 31), day(2026, 2, 1),
      day(2025, 12, 30), day(2025, 12, 31), day(2026, 1, 1),
      day(2024, 2, 28), day(2024, 2, 29), day(2024, 3, 1),
      day(2025, 2, 28), day(2025, 3, 1), day(2026, 2, 28), day(2026, 3, 1),
      day(2026, 4, 30), day(2026, 5, 1), day(2026, 5, 31),
      day(2100, 2, 28), day(2100, 3, 1) }

ProbeTimes == {[t EXCEPT !.h = h] : t \in ProbeDays, h \in Hours}

InitDay ==
    /\ pc = "day"
    /\ d1 \in ProbeTimes
    /\ d2 \in ProbeTimes
    /\ consecutive = FALSE
    /\ dateGroups = <<>>
    /\ thresholdOneDay = 0
    /\ thresholdConsecutiveDays = 0
    /\ result = <<>>
    /\ filesWithDates = <<>>
    /\ groups = <<>>
    /\ CopyNotStarted
    /\ ExtractNotStarted
    /\ ZombieNotStarted
    /\ CleanNotStarted
    /\ TreeNotStarted

\* The call isConsecutiveDay(date1, date2).
ConsecutiveDayCall ==
    /\ pc = "day"
    /\ consecutive' = isConsecutiveDay(d1, d2)
    /\ pc' = "dayReturned"
    /\ UNCHANGED <<detectVars, groupVars, copyVars, extractVars, zombieVars, cleanVars,
                   treeVars, d1, d2>>

NextDay == ConsecutiveDayCall

SpecDay == InitDay /\ [][NextDay]_vars

(***************************************************************************)
(* cleanSDCard (src/unnamed/part_004): the destination root is created,    *)
(* copyFiles is called once per extension, removeFiles empties the source  *)
(* and deleteZombieEditFiles cleans the destination tree.  cleanSDCard     *)
(* waits for each call, so a call of copyFiles or deleteZombieEditFiles is *)
(* one step here, with every outcome the call can have; removeFiles is     *)
(* followed entry by entry.                                                *)
(***************************************************************************)

MaxSourceEntries == 2 \* entries of the source directory of cleanSDCard

\* The cluster directory and name each record of fwds is copied to.
TargetSlots(fwds, thrOneDay, thrConsecutive) ==
    LET dm == buildDateMap(fwds, 1, EmptyMap)
        plan == planOf(fwds, thrOneDay, thrConsecutive,
                       CHOOSE o \in IterationOrders(dm) : TRUE)
    IN  UNION { {[dir |-> actualDestDirOf(plan[c]), name |-> plan[c].files[n]] :
                    n \in 1..Len(plan[c].files)} : c \in 1..Len(plan) }

\* The entries of the source directory that are files.
fileEntries(entries) == {i \in 1..Len(entries) : ~entries[i].isDir}

\* The spellings of an extension that the file names use.
ExtVariants(e) == {v \in {"arw", "ARW", "raw", "Raw"} : EqualFold(v, e)}

\* os.Stat of dir/base.e succeeds in the destination tree.
dstStatFinds(dir, base, e) ==
    IF caseSensitive
    THEN joinPath(dir, base \o "." \o e) \in DOMAIN dstFS
    ELSE \E v \in ExtVariants(e) : joinPath(dir, base \o "." \o v) \in DOMAIN dstFS

\* The edit files deleteZombieEditFiles finds no raw file for.
zombiesOf(editFileExtension, rawFileExtensions) ==
    {sc \in sidecars :
        /\ sc.ext = editFileExtension
        /\ ~\E k \in 1..Len(rawFileExtensions) :
               dstStatFinds(sc.dir, sc.base, rawFileExtensions[k])}

\* A subdirectory of the destination that holds edit files of earlier runs.
editsDir == joinPath(dstDir, "edits")

InitClean ==
    /\ pc = "mkdirDst"
    /\ srcEntries \in EntryListsUpTo(MaxSourceEntries)
    /\ srcFS = 1..Len(srcEntries)
    /\ \E tp \in ThresholdPairs :
           thresholdOneDay = tp[1] /\ thresholdConsecutiveDays = tp[2]
    /\ flagDryRun \in BOOLEAN
    /\ flagOverwrite \in BOOLEAN
    /\ flagDeleteZombieEditFiles \in BOOLEAN
    /\ caseSensitive \in BOOLEAN
    /\ \E before \in {S \in SUBSET TargetSlots(
                               fullExtraction(srcEntries, ExtensionsToCopy[1], Len(srcEntries)),
                               thresholdOneDay, thresholdConsecutiveDays) :
                         Cardinality(S) <= 1} :
           /\ dstBefore = {joinPath(slot.dir, slot.name) : slot \in before}
           /\ sidecars \in {S \in SUBSET ({[dir |-> dstDir,
                                            base |-> "file" \o ToString(i),
                                            ext |-> EditFileExtensions[1]] :
                                               i \in fileEntries(srcEntries)}
                                          \cup {[dir |-> editsDir, base |-> "old",
                                                 ext |-> EditFileExtensions[1]]}) :
                               Cardinality(S) <= 1}
           /\ dirs \in {D \in {{}, {dstDir} \cup {slot.dir : slot \in before}
                                             \cup {sc.dir : sc \in sidecars}} :
                           (before # {} \/ sidecars # {}) => D # {}}
    /\ dstFS = [p \in dstBefore |-> "old"]
    /\ sidecarsBefore = sidecars
    /\ dirsBefore = dirs
    /\ ei = 1
    /\ ri = 1
    /\ totalCopied = 0
    /\ removedCount = 0
    /\ passes = <<>>
    /\ removeRet = NoError
    /\ cleanRet = NoError
    /\ runNo = 0
    /\ dateGroups = <<>>
    /\ result = <<>>
    /\ filesWithDates = <<>>
    /\ groups = <<>>
    /\ finalGroups = <<>>
    /\ gi = 1
    /\ fi = 1
    /\ task = <<>>
    /\ count = 0
    /\ errsChan = <<>>
    /\ wg = 0
    /\ retCount = 0
    /\ retErr = NilError
    /\ ext = ""
    /\ extract = <<>>
    /\ calls = <<>>
    /\ zFS = {}
    /\ zBefore = {}
    /\ ztask = <<>>
    /\ zcount = 0
    /\ zerrs = <<>>
    /\ zret = NoReturn
    /\ zprobe = {}
    /\ AuxNotStarted

\* What the steps of cleanSDCard leave alone whatever they do.
cleanFrame ==
    UNCHANGED <<detectVars, groupVars, flagDryRun, flagOverwrite, finalGroups, gi, fi,
                task, count, errsChan, wg, dstBefore, srcEntries, extract, calls,
                caseSensitive, zFS, zBefore, ztask, zcount, zerrs, zret, zprobe,
                sidecarsBefore, dirsBefore, flagDeleteZombieEditFiles, runNo, auxVars>>

\* cleanSDCard returns.
cleanReturns(copied, removed, err) ==
    /\ cleanRet' = [copied |-> copied, removed |-> removed, err |-> err]
    /\ pc' = "cleaned"

\* Lines 59-63: os.MkdirAll(dirDst) unless this is a dry run.
CleanMkdirDst ==
    /\ pc = "mkdirDst"
    /\ dirs' = IF flagDryRun THEN dirs ELSE dirs \cup {dstDir}
    /\ pc' = "copy"
    /\ cleanFrame
    /\ UNCHANGED <<dstFS, retCount, retErr, ext, srcFS, sidecars, ei, ri, totalCopied,
                   removedCount, passes, removeRet, cleanRet>>

\* Lines 60-62: os.MkdirAll(dirDst) fails.
CleanMkdirDstError ==
    /\ pc = "mkdirDst"
    /\ ~flagDryRun
    /\ dstDir \notin dirs
    /\ cleanReturns(0, 0, [kind |-> "mkdirDst"])
    /\ cleanFrame
    /\ UNCHANGED <<dstFS, dirs, retCount, retErr, ext, srcFS, sidecars, ei, ri,
                   totalCopied, removedCount, passes, removeRet>>

\* The sub-sequences of the records that the unsynchronised appends of the
\* first pass can leave in filesWithDates.
survivingRecords(full) ==
    IF full = <<>> THEN {<<>>}
    ELSE {[k \in 1..Cardinality(S) |-> full[SortedSeqOf(S)[k]]] :
             S \in (SUBSET (1..Len(full))) \ {{}}}

\* The <<cluster, file>> positions of a plan that are dispatched when the
\* transfer loop stops before cluster `stop` (0: it does not stop).
dispatched(plan, stop) ==
    UNION { {<<c, n>> : n \in 1..Len(plan[c].files)} :
            c \in {k \in 1..Len(plan) : stop = 0 \/ k < stop} }

slotPath(plan, cn) == joinPath(actualDestDirOf(plan[cn[1]]), plan[cn[1]].files[cn[2]])

\* Variant of passAborts that gives up on a directory error only.
passAbortsOnMkdirOnly(err) == err.kind = "mkdir"

\* Line 68: the error test after copyFiles.
passAborts(err) == err # NilError

\* Lines 67-71: copyFiles has returned (n, err).
passReturns(n, err) ==
    /\ retCount' = n
    /\ retErr' = err
    /\ passes' = Append(passes, [ext |-> ExtensionsToCopy[ei], n |-> n, err |-> err])
    /\ IF passAborts(err)
       THEN /\ cleanReturns(totalCopied, 0, [kind |-> "copy", ext |-> ExtensionsToCopy[ei]])
            /\ UNCHANGED <<totalCopied, ei>>
       ELSE /\ totalCopied' = totalCopied + n
            /\ ei' = ei + 1
            /\ pc' = IF ei < Len(ExtensionsToCopy) THEN "copy" ELSE "remove"
            /\ UNCHANGED cleanRet

\* Lines 66-72: one call of copyFiles.  Some of the records survive the first
\* pass; the transfer loop stops at a cluster whose directory cannot be
\* created or runs to the end; each dispatched file is skipped, counted, or
\* fails after or before its destination was created.
CopyPass ==
    /\ pc = "copy"
    /\ ext' = ExtensionsToCopy[ei]
    /\ \E fwds \in survivingRecords(fullExtraction(srcEntries, ExtensionsToCopy[ei],
                                                   Len(srcEntries))) :
         IF fwds = <<>>
         THEN /\ passReturns(0, NilError)
              /\ UNCHANGED <<dstFS, dirs>>
         ELSE \E order \in IterationOrders(buildDateMap(fwds, 1, EmptyMap)) :
              LET plan == planOf(fwds, thresholdOneDay, thresholdConsecutiveDays, order)
              IN  \E stop \in 0..Len(plan) :
                  /\ stop # 0 => /\ needsMkdir(plan[stop])
                                 /\ actualDestDirOf(plan[stop]) \notin dirs
                  /\ LET sent == dispatched(plan, stop)
                         skipped == {cn \in sent : /\ ~flagOverwrite
                                                   /\ slotPath(plan, cn) \in DOMAIN dstFS}
                         newDirs == {actualDestDirOf(plan[c]) :
                                        c \in {k \in 1..Len(plan) :
                                                  /\ stop = 0 \/ k < stop
                                                  /\ needsMkdir(plan[k])}}
                     IN  \E failed \in SUBSET (sent \ skipped) :
                         \E created \in SUBSET failed :
                             /\ flagDryRun => failed = {}
                             /\ LET counted == (sent \ skipped) \ failed
                                    written == IF flagDryRun THEN {}
                                               ELSE counted \cup created
                                    errs == [kind |-> "join",
                                             errs |-> SortedSeqOf({cn[1] * 10 + cn[2] :
                                                                      cn \in failed})]
                                IN  /\ dstFS' = [q \in DOMAIN dstFS \cup
                                                       {slotPath(plan, cn) : cn \in written} |->
                                                    IF \E cn \in counted : q = slotPath(plan, cn)
                                                        /\ ~flagDryRun
                                                    THEN "copied"
                                                    ELSE IF \E cn \in created :
                                                                q = slotPath(plan, cn)
                                                         THEN "partial"
                                                         ELSE dstFS[q]]
                                    /\ dirs' = dirs \cup newDirs
                                    /\ IF stop # 0
                                       THEN \E n \in 0..Cardinality(counted) :
                                                passReturns(n, [kind |-> "mkdir",
                                                                dir |-> actualDestDirOf(plan[stop])])
                                       ELSE passReturns(Cardinality(counted),
                                                        IF failed = {} THEN NilError ELSE errs)
    /\ cleanFrame
    /\ UNCHANGED <<srcFS, sidecars, ri, removedCount, removeRet>>

\* fileops.go lines 150-153: os.ReadDir(srcDir) fails and copyFiles returns
\* before its first goroutine is started.
CopyListError ==
    /\ pc = "copy"
    /\ ext' = ExtensionsToCopy[ei]
    /\ passReturns(0, [kind |-> "readdir"])
    /\ cleanFrame
    /\ UNCHANGED <<dstFS, dirs, srcFS, sidecars, ri, removedCount, removeRet>>

\* Lines 74-81 and 83: in a dry run neither removeFiles nor
\* deleteZombieEditFiles is called.
CleanDryRunReturn ==
    /\ pc = "remove"
    /\ flagDryRun
    /\ cleanReturns(totalCopied, removedCount, NilError)
    /\ cleanFrame
    /\ UNCHANGED <<dstFS, dirs, retCount, retErr, ext, srcFS, sidecars, ei, ri,
                   totalCopied, removedCount, passes, removeRet>>

\* removeFiles, fileops.go lines 412-423: the next entry is a directory and
\* is left, or a file and is removed.
RemoveNext ==
    /\ pc = "remove"
    /\ ~flagDryRun
    /\ ri <= Len(srcEntries)
    /\ IF srcEntries[ri].isDir
       THEN UNCHANGED <<srcFS, removedCount>>
       ELSE /\ srcFS' = srcFS \ {ri}
            /\ removedCount' = removedCount + 1
    /\ ri' = ri + 1
    /\ cleanFrame
    /\ UNCHANGED <<pc, dstFS, dirs, retCount, retErr, ext, sidecars, ei, totalCopied,
                   passes, removeRet, cleanRet>>

\* Variant of RemoveListError that reports the failed listing after the first
\* file has been removed.
RemoveListErrorLate ==
    /\ pc = "remove"
    /\ ~flagDryRun
    /\ ri = 1
    /\ fileEntries(srcEntries) # {}
    /\ removeRet' = [kind |-> "readdir"]
    /\ srcFS' = srcFS \ {CHOOSE i \in fileEntries(srcEntries) :
                              \A j \in fileEntries(srcEntries) : i <= j}
    /\ cleanReturns(totalCopied, 1, [kind |-> "removeFiles"])
    /\ cleanFrame
    /\ UNCHANGED <<dstFS, dirs, retCount, retErr, ext, sidecars, ei, ri,
                   totalCopied, removedCount, passes>>

\* fileops.go lines 406-409 and part_004 lines 77-80: os.ReadDir(dir) fails
\* and removeFiles returns before its loop.
RemoveListError ==
    /\ pc = "remove"
    /\ ~flagDryRun
    /\ ri = 1
    /\ removeRet' = [kind |-> "readdir"]
    /\ cleanReturns(totalCopied, 0, [kind |-> "removeFiles"])
    /\ cleanFrame
    /\ UNCHANGED <<dstFS, dirs, retCount, retErr, ext, srcFS, sidecars, ei, ri,
                   totalCopied, removedCount, passes>>

\* fileops.go lines 418-420 and part_004 lines 78-80: os.Remove fails.
RemoveError ==
    /\ pc = "remove"
    /\ ~flagDryRun
    /\ ri <= Len(srcEntries)
    /\ ~srcEntries[ri].isDir
    /\ removeRet' = [kind |-> "remove", entry |-> ri]
    /\ cleanReturns(totalCopied, removedCount, [kind |-> "removeFiles"])
    /\ cleanFrame
    /\ UNCHANGED <<dstFS, dirs, retCount, retErr, ext, srcFS, sidecars, ei, ri,
                   totalCopied, removedCount, passes>>

\* Variant of RemoveDone that goes on to deleteZombieEditFiles whatever
\* flagDeleteZombieEditFiles is.
RemoveDoneAlwaysCleans ==
    /\ pc = "remove"
    /\ ~flagDryRun
    /\ ri > Len(srcEntries)
    /\ removeRet' = NilError
    /\ pc' = "zombie"
    /\ cleanFrame
    /\ UNCHANGED <<dstFS, dirs, retCount, retErr, ext, srcFS, sidecars, ei, ri,
                   totalCopied, removedCount, passes, cleanRet>>

\* fileops.go line 424 and part_004 lines 78-83: removeFiles returns nil.
RemoveDone ==
    /\ pc = "remove"
    /\ ~flagDryRun
    /\ ri > Len(srcEntries)
    /\ removeRet' = NilError
    /\ IF flagDeleteZombieEditFiles
       THEN pc' = "zombie" /\ UNCHANGED cleanRet
       ELSE cleanReturns(totalCopied, removedCount, NilError)
    /\ cleanFrame
    /\ UNCHANGED <<dstFS, dirs, retCount, retErr, ext, srcFS, sidecars, ei, ri,
                   totalCopied, removedCount, passes>>

\* Lines 84-93: deleteZombieEditFiles on the destination tree returns nil.
ZombiePass ==
    /\ pc = "zombie"
    /\ LET gone == zombiesOf(EditFileExtensions[1], ExtensionsToCopy)
       IN  /\ sidecars' = sidecars \ gone
           /\ removedCount' = removedCount + Cardinality(gone)
           /\ cleanReturns(totalCopied, removedCount', NilError)
    /\ cleanFrame
    /\ UNCHANGED <<dstFS, dirs, retCount, retErr, ext, srcFS, ei, ri, totalCopied,
                   passes, removeRet>>

\* Lines 85-88: deleteZombieEditFiles returns an error, having deleted some
\* of the zombies.
ZombiePassError ==
    /\ pc = "zombie"
    /\ \E gone \in SUBSET zombiesOf(EditFileExtensions[1], ExtensionsToCopy) :
           sidecars' = sidecars \ gone
    /\ cleanReturns(totalCopied, removedCount, [kind |-> "zombie"])
    /\ cleanFrame
    /\ UNCHANGED <<dstFS, dirs, retCount, retErr, ext, srcFS, ei, ri, totalCopied,
                   removedCount, passes, removeRet>>

\* part_005 lines 19-22 and part_004 lines 85-88: os.ReadDir(dirDst) fails and
\* deleteZombieEditFiles returns before its first goroutine is started.
ZombieListError ==
    /\ pc = "zombie"
    /\ cleanReturns(totalCopied, removedCount, [kind |-> "zombie", cause |-> "readdir"])
    /\ cleanFrame
    /\ UNCHANGED <<dstFS, dirs, retCount, retErr, ext, srcFS, sidecars, ei, ri,
                   totalCopied, removedCount, passes, removeRet>>

NextClean ==
    \/ CleanMkdirDst
    \/ CleanMkdirDstError
    \/ CopyPass
    \/ CleanDryRunReturn
    \/ RemoveNext
    \/ RemoveError
    \/ RemoveDone
    \/ ZombiePass
    \/ ZombiePassError
    \/ CopyListError
    \/ RemoveListError
    \/ ZombieListError

SpecClean == InitClean /\ [][NextClean]_vars

(***************************************************************************)
(* cleanSDCard run again on the same directories.  A run that returned an  *)
(* error before removeFiles has left the source as it was and the          *)
(* destination with what its copy goroutines wrote; the user runs the      *)
(* program again, with overwrite off and a destination that was empty      *)
(* before the first run.                                                   *)
(***************************************************************************)
MaxRuns == 2          \* runs of cleanSDCard on the same directories

InitRuns ==
    /\ InitClean
    /\ ~flagOverwrite
    /\ caseSensitive
    /\ thresholdOneDay < 3
    /\ dstBefore = {}
    /\ sidecars = {}
    /\ dirs = {}

\* part_004 lines 58-66: cleanSDCard is called again after a run that
\* removed nothing from the source.
RunAgain ==
    /\ pc = "cleaned"
    /\ runNo + 1 < MaxRuns
    /\ srcFS = 1..Len(srcEntries)
    /\ runNo' = runNo + 1
    /\ pc' = "mkdirDst"
    /\ ei' = 1
    /\ ri' = 1
    /\ totalCopied' = 0
    /\ removedCount' = 0
    /\ passes' = <<>>
    /\ removeRet' = NoError
    /\ cleanRet' = NoError
    /\ retCount' = 0
    /\ retErr' = NilError
    /\ ext' = ""
    /\ UNCHANGED <<detectVars, groupVars, flagDryRun, flagOverwrite, finalGroups, gi, fi,
                   task, count, errsChan, wg, dstFS, dstBefore, dirs, srcEntries, extract,
                   calls, zombieVars, srcFS, sidecars, sidecarsBefore, dirsBefore,
                   flagDeleteZombieEditFiles, auxVars>>

NextRuns ==
    \/ NextClean
    \/ RunAgain

SpecRuns == InitRuns /\ [][NextRuns]_vars

\* In a dry run the transfer phase writes no file and creates no directory.
DryRunTransferFrame ==
    flagDryRun => (dstFS = [q \in dstBefore |-> "old"] /\ dirs = {})

\* The number of matching files with a timestamp that a dry run would copy.
expectedDryRunCount ==
    LET full == fullExtraction(srcEntries, ext, Len(srcEntries))
    IN  dryRunCount(full, CHOOSE o \in IterationOrders(buildDateMap(full, 1, EmptyMap)) : TRUE)

\* C15: two consecutive dry-run calls of copyFiles on unchanged directories
\* return the same count, under every interleaving of the goroutines, and
\* the count is the number of matching files with a timestamp that would be
\* copied.
C15_DryRunDeterministic ==
    (pc = "compared") =>
        /\ calls[1] = calls[2]
        /\ calls[1] = expectedDryRunCount

\* The entries of the source that are files of the extension without a
\* capture timestamp.
undated == {i \in 1..Len(srcEntries) :
               matchesExt(srcEntries[i], ext) /\ srcEntries[i].date = NoDate}

ExtractionDone == \A i \in 1..Len(srcEntries) : extract[i].pc = "done"

\* C34: under every interleaving of the goroutines of the first pass, the
\* list filesWithDates that groupFilesByDate gets after wg.Wait() holds
\* exactly one record for each entry that is a regular file of the
\* extension with a timestamp, and no other record.
C34_ExtractionComplete ==
    ExtractionDone =>
        /\ Len(filesWithDates) = Len(fullExtraction(srcEntries, ext, Len(srcEntries)))
        /\ \A i \in 1..Len(srcEntries) :
               Occurrences(filesWithDates, recordOf(srcEntries[i]))
                   = IF yieldsRecord(srcEntries[i], ext) THEN 1 ELSE 0

(***************************************************************************)
(* Claims about copyFiles as a whole.                                      *)
(***************************************************************************)
\* The records of filesWithDates captured on day k of the calendar.
recordsOnDay(k) ==
    {n \in 1..Len(filesWithDates) : Ordinal(filesWithDates[n].date) = k}

\* Day k holds at least thresholdConsecutiveDays files.
dayQualifies(k) ==
    /\ k \in 0..(NumDays - 1)
    /\ Cardinality(recordsOnDay(k)) >= thresholdConsecutiveDays

\* Day k belongs to a run of two or more contiguous qualifying days.
inRun(k) == dayQualifies(k) /\ (dayQualifies(k - 1) \/ dayQualifies(k + 1))

RECURSIVE runFirst(_)
runFirst(k) == IF dayQualifies(k - 1) THEN runFirst(k - 1) ELSE k

RECURSIVE runLast(_)
runLast(k) == IF dayQualifies(k + 1) THEN runLast(k + 1) ELSE k

\* dstDir/<firstDay-lastDay> of the run day k belongs to.
expectedRangeDir(k) ==
    joinPath(dstDir, FormatCompact(Calendar[runFirst(k)]) \o "-"
                         \o FormatCompact(Calendar[runLast(k)]))

\* C31: when a copyFiles without dry run has returned no error, every file
\* captured on a day of a run of contiguous days that each hold at least
\* thresholdConsecutiveDays files is at dstDir/<firstDay-lastDay>/<name>,
\* and every file of a cluster with folder "." is at dstDir/<name>.
C31_EndToEnd ==
    (Returned /\ ~flagDryRun /\ retErr = NilError) =>
        /\ \A n \in 1..Len(filesWithDates) :
               LET k == Ordinal(filesWithDates[n].date)
               IN  inRun(k) =>
                       joinPath(expectedRangeDir(k), filesWithDates[n].name) \in DOMAIN dstFS
        /\ \A c \in 1..Len(finalGroups) :
               finalGroups[c].destDir = "." =>
                   \A f \in SeqRange(finalGroups[c].files) :
                       joinPath(dstDir, f) \in DOMAIN dstFS

(***************************************************************************)
(* Claims about deleteZombieEditFiles.                                     *)
(***************************************************************************)
ZombieReturned == pc = "zreturned"

\* f is a sidecar by the case-insensitive reading of the extension.
IsSidecar(f) == \E k \in 1..Len(EditFileExtensions) : EqualFold(f.ext, EditFileExtensions[k])

\* A file of the directory has the base name of f and a primary extension,
\* case ignored.
HasPrimaryIgnoringCase(f) ==
    \E g \in zBefore : \E k \in 1..Len(ExtensionsToCopy) :
        g.base = f.base /\ EqualFold(g.ext, ExtensionsToCopy[k])

\* C18: a sidecar is never deleted while the directory holds a file whose
\* name is the sidecar's base name plus a primary extension in any case.
C18_KeptIgnoringCase ==
    \A f \in zBefore : (IsSidecar(f) /\ HasPrimaryIgnoringCase(f)) => f \in zFS

\* f is named base.xmp with the configured edit extension as written.
IsEditFile(f) == \E k \in 1..Len(EditFileExtensions) : f.ext = EditFileExtensions[k]

\* The file base.primaryExtension exists for some configured extension.
HasSibling(f) ==
    \E k \in 1..Len(ExtensionsToCopy) :
        \E g \in zBefore : sameFile(g, [base |-> f.base, ext |-> ExtensionsToCopy[k]])

\* C19: when deleteZombieEditFiles has returned, every edit file with a
\* primary sibling is kept, every other file that is no edit file is kept,
\* the count is the number of files deleted, and, unless an os.Stat or
\* os.Remove error is returned, every edit file without a sibling is gone.
C19_ZombiesDeleted ==
    ZombieReturned =>
        /\ \A f \in zBefore : (IsEditFile(f) /\ HasSibling(f)) => f \in zFS
        /\ \A f \in zBefore : ~IsEditFile(f) => f \in zFS
        /\ zret.count = Cardinality(zBefore \ zFS)
        /\ zret.err = NilError =>
               \A f \in zBefore : (IsEditFile(f) /\ ~HasSibling(f)) => f \notin zFS

\* valid.xmp with valid.arw is kept, both zombies are deleted, the count is 2.
C19_Witness ==
    /\ ZombieReturned
    /\ zret = [count |-> 2, err |-> NilError]
    /\ zBefore = { [base |-> "valid", ext |-> "xmp"], [base |-> "valid", ext |-> "arw"],
                   [base |-> "zombie1", ext |-> "xmp"], [base |-> "zombie2", ext |-> "xmp"] }
    /\ zFS = { [base |-> "valid", ext |-> "xmp"], [base |-> "valid", ext |-> "arw"] }

\* C20: a file whose extension matches the sidecar extension in any case and
\* that has no primary file is deleted and counted.
C20_SidecarIgnoringCase ==
    (ZombieReturned /\ zret.err = NilError) =>
        /\ \A f \in zBefore : (IsSidecar(f) /\ ~HasPrimaryIgnoringCase(f)) => f \notin zFS
        /\ zret.count >= Cardinality({f \in zBefore :
                                         IsSidecar(f) /\ ~HasPrimaryIgnoringCase(f)})

\* The error deleteZombieEditFiles sends when the os.Stat for f fails.
probeError(f) == [kind |-> "stat", file |-> f]

\* e is one of the errors joined into err.
Joins(err, e) == err.kind = "join" /\ \E k \in 1..Len(err.errs) : err.errs[k] = e

\* C21: an edit file whose os.Stat failed otherwise than with ErrNotExist is
\* never removed and never counted, and once deleteZombieEditFiles has
\* returned its error is non-nil and contains the probe failure of that file.
C21_ProbeFailureReported ==
    \A f \in zprobe :
        /\ f \in zFS
        /\ ztask[f] = "done"
        /\ zcount <= Cardinality(zBefore \ (zFS \cup zprobe))
        /\ ZombieReturned =>
               /\ zret.err # NilError
               /\ Joins(zret.err, probeError(f))
               /\ zret.count = Cardinality(zBefore \ zFS)

\* zombie1.xmp has no raw file and its os.Stat fails: it is kept, zombie2.xmp
\* is deleted, the count is 1 and the error holds the probe failure.
C21_Witness ==
    /\ ZombieReturned
    /\ zBefore = { [base |-> "zombie1", ext |-> "xmp"], [base |-> "zombie2", ext |-> "xmp"] }
    /\ zprobe = { [base |-> "zombie1", ext |-> "xmp"] }
    /\ zFS = { [base |-> "zombie1", ext |-> "xmp"] }
    /\ zret = [count |-> 1,
               err |-> joinErrors(<<probeError([base |-> "zombie1", ext |-> "xmp"])>>)]

(***************************************************************************)
(* Claims about deleteZombieEditFiles on a directory tree.                 *)
(***************************************************************************)
TreeReturned == pc = "treturned"

\* The entries that have been removed from the tree.
treeDeleted == tBefore \ tFS

\* C22: whatever the tree holds and however the goroutines interleave, every
\* entry that has been removed is a plain file whose name ends with the edit
\* extension: no directory and no file with another extension is removed.
C22_OnlyEditFilesRemoved ==
    \A e \in treeDeleted : ~e.isDir /\ e.ext = EditFileExtensions[1]

\* The recursive run has returned: zombie1.xmp is deleted, photo.jpg and the
\* directory album.xmp are still there.
C22_Witness ==
    /\ TreeReturned
    /\ isRecursive
    /\ tBefore = {dirEntry(AlbumDir), plainFile(0, "zombie1", "xmp"),
                  plainFile(0, "photo", "jpg")}
    /\ tFS = {dirEntry(AlbumDir), plainFile(0, "photo", "jpg")}
    /\ tcall[AlbumDir].pc = "returned"
    /\ tcall[0].ret = [count |-> 1, err |-> NilError]

\* The error err, or an error wrapped in it at any depth, is about x.
RECURSIVE errorCovers(_, _)
errorCovers(err, x) ==
    CASE err.kind = "join"    -> \E k \in 1..Len(err.errs) : errorCovers(err.errs[k], x)
      [] err.kind = "subdir"  -> errorCovers(err.err, x)
      [] err.kind = "readdir" -> dirEntry(err.dir) = x
      [] err.kind = "stat"    -> err.file = x
      [] err.kind = "remove"  -> err.file = x
      [] OTHER                -> FALSE

\* C23: when the recursive run has returned, the count is the number of
\* edit files deleted in the whole tree, and the returned error covers every
\* failure of every subtree.
C23_RecursiveCount ==
    (TreeReturned /\ isRecursive) =>
        /\ tcall[0].ret.count = Cardinality(treeDeleted)
        /\ \A x \in tfail : errorCovers(tcall[0].ret.err, x)

\* C24: while isRecursive is not set no call is made for a subdirectory and
\* every entry below a subdirectory of dir is still there; the count returned
\* is the number of files deleted in dir itself.
C24_NonRecursiveFrame ==
    ~isRecursive =>
        /\ \A k \in DirIds \ {0} : tcall[k] = NotCalled
        /\ \A e \in tBefore : e.dir # 0 => (e \in tFS /\ ttask[e] = "idle")
        /\ TreeReturned => tcall[0].ret.count = Cardinality({e \in treeDeleted : e.dir = 0})

\* TestDeleteZombieEditFiles, "non-recursive mode skips subdirectories":
\* root_zombie.xmp is deleted and counted, sub_zombie.xmp remains.
C24_Witness ==
    /\ TreeReturned
    /\ ~isRecursive
    /\ tBefore = {dirEntry(1), plainFile(0, "zombie1", "xmp"), plainFile(1, "zombie1", "xmp")}
    /\ tFS = {dirEntry(1), plainFile(1, "zombie1", "xmp")}
    /\ tcall[0].ret = [count |-> 1, err |-> NilError]

\* The call for directory k has got past os.ReadDir.
Listed(k) == tcall[k].pc \in {"running", "returned"} /\ tcall[k].ret.err.kind # "readdir"

\* The call for directory k has returned from its wg.Wait().
ReturnedAfterWait(k) == tcall[k].pc = "returned" /\ tcall[k].ret.err.kind # "readdir"

\* The errors the goroutines of the call for directory k have sent.
errorsSent(k) ==
    Len(tcall[k].errs)
        + (IF tcall[k].ret.err.kind = "join" THEN Len(tcall[k].ret.err.errs) ELSE 0)

\* No send on errsChan finds the channel full, and a call that has returned
\* from wg.Wait() has no goroutine left, in its own directory or below.
TreeBarrier ==
    \A k \in DirIds :
        /\ Len(tcall[k].errs) <= treeErrsCapacity(k)
        /\ errorsSent(k) <= Cardinality({e \in entriesOf(k, tBefore) : ttask[e] = "done"})
        /\ ReturnedAfterWait(k) =>
               \A e \in entriesOf(k, tBefore) :
                   /\ ttask[e] = "done"
                   /\ (IsDir(e) /\ isRecursive) => tcall[dirOf(e)].pc = "returned"

\* The steps the goroutine of an entry has before it.
stepsLeft(e) ==
    CASE ttask[e] = "idle"   -> 3
      [] ttask[e] = "run"    -> 2
      [] ttask[e] = "wait"   -> 1
      [] ttask[e] = "remove" -> 1
      [] OTHER               -> 0

\* The steps the call for directory k has before it, its goroutines apart.
callStepsLeft(k) ==
    CASE tcall[k].pc = "none"    -> 3
      [] tcall[k].pc = "called"  -> 2
      [] tcall[k].pc = "running" -> 1
      [] OTHER                   -> 0

\* A bound on the number of steps the run can still take.
treeRank ==
    3 * Cardinality({e \in tBefore : stepsLeft(e) = 3})
        + 2 * Cardinality({e \in tBefore : stepsLeft(e) = 2})
        + Cardinality({e \in tBefore : stepsLeft(e) = 1})
        + 3 * Cardinality({k \in DirIds : callStepsLeft(k) = 3})
        + 2 * Cardinality({k \in DirIds : callStepsLeft(k) = 2})
        + Cardinality({k \in DirIds : callStepsLeft(k) = 1})

\* Until the outermost call has returned some goroutine or call can take a
\* step.
TreeNotStuck == ~TreeReturned => ENABLED NextTree

\* deleteZombieEditFiles returns, under the fairness of FairSpecTree.
TreeEventuallyReturns == <>TreeReturned

\* C32: at most one error per finished goroutine is sent and the channel is
\* never over its capacity, so no send blocks; a call returns from wg.Wait()
\* only when all its goroutines and all the recursive calls below it have
\* finished; and deleteZombieEditFiles always returns: until it has returned
\* some step is possible, and every step lowers the number of steps left.
C32_TreeTerminates ==
    /\ []TreeBarrier
    /\ []TreeNotStuck
    /\ [][treeRank' < treeRank]_vars

\* The recursive call has returned with two errors of the subdirectory, for
\* a directory of two entries.
C32_Witness ==
    /\ TreeReturned
    /\ isRecursive
    /\ ReturnedAfterWait(1)
    /\ tcall[1].ret.err.kind = "join"
    /\ Len(tcall[1].ret.err.errs) = 2
    /\ treeErrsCapacity(1) = 2
    /\ tcall[0].ret.err.kind = "join"

(***************************************************************************)
(* Claims about cleanSDCard.                                               *)
(***************************************************************************)
Cleaned == pc = "cleaned"

\* The source directory is as it was listed when cleanSDCard was called.
SourceUntouched == srcFS = 1..Len(srcEntries)

\* The destination tree holds the files and directories it held before,
\* with their content.
DestinationUntouched ==
    /\ dstFS = [q \in dstBefore |-> "old"]
    /\ dirs = dirsBefore
    /\ sidecars = sidecarsBefore

\* C14: with flagDryRun set cleanSDCard creates no directory, neither the
\* destination root nor a date folder, writes no destination file, removes
\* no source file and deletes no sidecar, at any point of the call.
C14_DryRunFrame == flagDryRun => (SourceUntouched /\ DestinationUntouched)

\* A dry run has returned a count of two files, one of them bound for a date
\* folder, while the destination root does not exist.
C14_Witness ==
    /\ Cleaned
    /\ flagDryRun
    /\ cleanRet = [copied |-> 2, removed |-> 0, err |-> NilError]
    /\ dirs = {}
    /\ \E f \in fileEntries(srcEntries) :
           \E slot \in TargetSlots(fullExtraction(srcEntries, ExtensionsToCopy[1],
                                                  Len(srcEntries)),
                                   thresholdOneDay, thresholdConsecutiveDays) :
               slot.name = srcEntries[f].name /\ slot.dir # dstDir

AllPassesNil ==
    /\ Len(passes) = Len(ExtensionsToCopy)
    /\ \A k \in 1..Len(passes) : passes[k].err = NilError

SomePassFailed == \E k \in 1..Len(passes) : passes[k].err # NilError

RemoveStarted == ri > 1 \/ removeRet # NoError \/ ~SourceUntouched

ZombieStarted == pc = "zombie" \/ sidecars # sidecarsBefore

\* C16: removeFiles starts only after every extension pass of copyFiles has
\* returned, all with a nil error; deleteZombieEditFiles starts only after
\* removeFiles returned nil; once a copy pass has returned an error no
\* source file is removed and no sidecar is deleted.
C16_PhaseOrder ==
    /\ RemoveStarted => AllPassesNil
    /\ ZombieStarted => (AllPassesNil /\ removeRet = NilError)
    /\ SomePassFailed => (SourceUntouched /\ sidecars = sidecarsBefore)

\* All three phases have acted in one call: a file was copied, the source
\* was emptied and a zombie sidecar was deleted.
C16_Witness ==
    /\ Cleaned
    /\ cleanRet.err = NilError
    /\ cleanRet.copied >= 1
    /\ srcFS = {}
    /\ Len(srcEntries) >= 2
    /\ sidecars # sidecarsBefore

\* The names of the files in the destination tree.
sourceNames == {srcEntries[i].name : i \in fileEntries(srcEntries)}

\* Every source entry is a file with a copied extension.
AllCopyable ==
    \A i \in 1..Len(srcEntries) :
        /\ ~srcEntries[i].isDir
        /\ \E k \in 1..Len(ExtensionsToCopy) : EqualFold(srcEntries[i].ext, ExtensionsToCopy[k])

\* The destination holds exactly the source files, fully copied.
DestinationHoldsSource ==
    /\ Cardinality(DOMAIN dstFS) = Cardinality(sourceNames)
    /\ \A q \in DOMAIN dstFS : dstFS[q] = "copied"

\* C17: after a cleanSDCard without dry run that returns no error the source
\* directory holds no regular file; and if every source file has a copied
\* extension and the destination held none of them, the copied count and
\* the removed count are the number of source files and the destination
\* holds exactly those files.
C17_SourceEmptied ==
    (Cleaned /\ ~flagDryRun /\ cleanRet.err = NilError) =>
        /\ srcFS \cap fileEntries(srcEntries) = {}
        /\ (AllCopyable /\ dstBefore = {} /\ sidecarsBefore = {}) =>
               /\ cleanRet.copied = Len(srcEntries)
               /\ cleanRet.removed = Len(srcEntries)
               /\ DestinationHoldsSource

\* The number of source files that have been removed.
sourceRemoved == Cardinality(fileEntries(srcEntries) \ srcFS)

\* C25: a step in which os.ReadDir fails in copyFiles, removeFiles or
\* deleteZombieEditFiles makes that function return count 0 and an error,
\* ends the run with an error, and changes neither the source nor the
\* destination tree.
C25_ListingErrorFatal ==
    [][ LET listed == \/ /\ Len(passes') > Len(passes)
                         /\ passes'[Len(passes')].err = [kind |-> "readdir"]
                      \/ /\ removeRet' # removeRet
                         /\ removeRet' = [kind |-> "readdir"]
                      \/ /\ cleanRet' # cleanRet
                         /\ cleanRet'.err = [kind |-> "zombie", cause |-> "readdir"]
        IN  listed =>
               /\ UNCHANGED <<srcFS, dstFS, dirs, sidecars>>
               /\ pc' = "cleaned"
               /\ cleanRet'.err # NilError
               /\ Len(passes') > Len(passes) =>
                      /\ passes'[Len(passes')].n = 0
                      /\ cleanRet'.copied = totalCopied
               /\ removeRet' # removeRet => cleanRet'.removed = 0
               /\ (pc = "zombie") => cleanRet'.removed = removedCount
      ]_vars

\* The files were copied and counted, then os.ReadDir of the source failed
\* in removeFiles: nothing is removed.
C25_Witness ==
    /\ Cleaned
    /\ removeRet = [kind |-> "readdir"]
    /\ cleanRet = [copied |-> 2, removed |-> 0, err |-> [kind |-> "removeFiles"]]
    /\ SourceUntouched

RECURSIVE sumOfPasses(_)
sumOfPasses(n) == IF n = 0 THEN 0 ELSE sumOfPasses(n - 1) + passes[n].n

\* C27: the copied total cleanSDCard returns is the sum of the counts that the
\* calls of copyFiles returned, the count of a call that returned an error
\* included.
C27_CopiedTotal ==
    Cleaned => cleanRet.copied = sumOfPasses(Len(passes))

\* C28: when removeFiles has returned an error for a failed os.Remove, it has
\* gone through every entry of the source directory.
C28_RemoveContinues ==
    (Cleaned /\ removeRet # NoError /\ removeRet # NilError /\ removeRet.kind = "remove") =>
        ri > Len(srcEntries)

\* The number of the calendar day of t in the proleptic Gregorian calendar,
\* counted in days from 0000-03-01.
dayNumber(t) ==
    LET yy  == IF t.m <= 2 THEN t.y - 1 ELSE t.y
        mp  == (t.m + 9) % 12
        doy == (153 * mp + 2) \div 5 + t.d - 1
    IN  365 * yy + yy \div 4 - yy \div 100 + yy \div 400 + doy

\* C30: isConsecutiveDay(d1, d2) is true exactly when the calendar day of d2
\* is the day after the calendar day of d1, whatever the hours of the two
\* timestamps are.
C30_ConsecutiveIffNextDay ==
    (pc = "dayReturned") => (consecutive <=> dayNumber(d2) = dayNumber(d1) + 1)

\* From the last hour of 2025-12-31 to the first hour of 2026-01-01.
C30_Witness ==
    /\ pc = "dayReturned"
    /\ d1 = [y |-> 2025, m |-> 12, d |-> 31, h |-> 23]
    /\ d2 = [y |-> 2026, m |-> 1, d |-> 1, h |-> 0]
    /\ consecutive

\* cleanSDCard has returned nil from a run that was no dry run.
CleanedWithoutError == pc = "cleaned" /\ ~flagDryRun /\ cleanRet.err = NilError

\* Entry i of the source is a file whose extension is in ExtensionsToCopy.
inCopyList(i) ==
    /\ ~srcEntries[i].isDir
    /\ \E k \in 1..Len(ExtensionsToCopy) : EqualFold(srcEntries[i].ext, ExtensionsToCopy[k])

\* A file of the name exists at dstDir or in one of its subfolders.
inDestination(name) ==
    \E d \in dirs \cup {dstDir} : joinPath(d, name) \in DOMAIN dstFS

\* C37: after a run of cleanSDCard that was no dry run and returned no error,
\* every file that was removed from the source and whose extension is in
\* the copy list exists under the destination with the same name.
C37_NoLossWithinRun ==
    CleanedWithoutError =>
        \A i \in 1..Len(srcEntries) :
            (inCopyList(i) /\ i \notin srcFS) => inDestination(srcEntries[i].name)

\* The destination file of the name of entry i, if there is one, holds the
\* whole content of the source file.
completeInDestination(i) ==
    \A d \in dirs \cup {dstDir} :
        joinPath(d, srcEntries[i].name) \in DOMAIN dstFS =>
            dstFS[joinPath(d, srcEntries[i].name)] = "copied"

\* C38: over the runs of cleanSDCard with overwrite off, a file of the copy
\* list that has been removed from the source has no destination file of
\* its name that holds less than its whole content: no run skips a file
\* over what a failed copy of an earlier run left and then removes it.
C38_NoLossAcrossRuns ==
    \A i \in 1..Len(srcEntries) :
        (inCopyList(i) /\ i \notin srcFS) => completeInDestination(i)
====
